---- MODULE Spec2Model ----
(***************************************************************************)
(* State-machine model of the UnionHub IAP subscription state engine:      *)
(* the Apple webhook ingestor, the client verify path, bind_account, the   *)
(* subscription table, the replay guard and the outbound webhook notifier. *)
(***************************************************************************)
EXTENDS Integers, Sequences, FiniteSets, TLC

VARIABLES
    projects,                \* the project table (rows of models.Project)
    subs,                    \* the subscription table, row id = index
    rowLock,                 \* row id -> request holding its FOR UPDATE lock, 0 = free
    req,                     \* one record per HTTP request handler
    processedNotifications,  \* ReplayProtection.processedNotifications
    now,                     \* wall clock, seconds
    outbound,                \* NotifyAppBackend goroutines that were started
    mismatchLog,             \* "AppAccountToken mismatch detected" log lines
    wn,                      \* one run of WebhookNotifier.sendWithRetry
    started,                 \* number of requests received so far
    rp,                      \* the sweeper's last tick and the last IsReplay call
    sv                       \* SignatureVerifier: certCache and its last verification

vars == <<projects, subs, rowLock, req, processedNotifications, now,
          outbound, mismatchLog, wn, started, rp, sv>>

-----------------------------------------------------------------------------
(* Bounds and input alphabets *)

MaxNow == 2

MaxStarted == 2

MaxReplayHours == 26

MaxSequence == 3

MaxCacheHours == 25

Slots == {1, 2}

TIDs == {"t1", "t2"}

Tokens == {"U1", "U2"}

\* A URL is the sequence of its "/"-separated parts, <<scheme and host, segment, ...>>;
\* the empty string of the code is the empty sequence.
NoURL == <<>>

CallbackA == <<"https://a.example", "webhooks", "unionhub">>

-----------------------------------------------------------------------------
(* models.Project and services.ProjectService *)

ProjectRows ==
    { [pid |-> "pA", apiKey |-> "kA", bundle |-> "bA", active |-> TRUE,
       callback |-> CallbackA, secret |-> "s1"],
      [pid |-> "pB", apiKey |-> "kB", bundle |-> "bB", active |-> TRUE,
       callback |-> NoURL, secret |-> ""],
      [pid |-> "pC", apiKey |-> "kC", bundle |-> "bC", active |-> FALSE,
       callback |-> NoURL, secret |-> ""] }

NoProject ==
    [pid |-> "", apiKey |-> "", bundle |-> "", active |-> FALSE,
     callback |-> NoURL, secret |-> ""]

GetProjectByBundleID(bundleID) ==
    LET hit == {p \in projects : p.bundle = bundleID /\ p.active = TRUE}
    IN  IF hit = {} THEN NoProject ELSE CHOOSE p \in hit : TRUE

GetActiveProjectByID(projectID) ==
    LET hit == {p \in projects : p.pid = projectID /\ p.active = TRUE}
    IN  IF hit = {} THEN NoProject ELSE CHOOSE p \in hit : TRUE

\* the order in which the table returns the project rows (by primary key)
ProjectOrder == <<"pA", "pB", "pC">>

\* GetAllProjects()[0]: the first active project, NoProject when there is none
FirstActiveProject ==
    LET hit == {i \in 1..Len(ProjectOrder) :
                   \E p \in projects : p.pid = ProjectOrder[i] /\ p.active}
    IN  IF hit = {} THEN NoProject
        ELSE CHOOSE p \in projects :
                 /\ p.active
                 /\ \E i \in hit : p.pid = ProjectOrder[i] /\ \A j \in hit : i <= j

\* ValidateProject without the comparison of the API key
ValidateProjectAnyKey(projectID, apiKey) ==
    LET project == GetActiveProjectByID(projectID)
    IN  project # NoProject /\ project.active

ValidateProject(projectID, apiKey) ==
    LET project == GetActiveProjectByID(projectID)
    IN  project # NoProject /\ project.apiKey = apiKey /\ project.active

\* PUT /api/admin/projects/:id with is_active set: ProjectService.UpdateProject
UpdateProject(projectID, isActive) ==
    /\ \E p \in projects : p.pid = projectID
    /\ projects' = {IF p.pid = projectID THEN [p EXCEPT !.active = isActive] ELSE p :
                       p \in projects}
    /\ UNCHANGED <<subs, rowLock, req, processedNotifications, now,
                   outbound, mismatchLog, wn, started, rp, sv>>

-----------------------------------------------------------------------------
(* models.Subscription and the database package *)

NoSub ==
    [pid |-> "", token |-> "", platform |-> "", plan |-> "", status |-> "",
     startDate |-> 0, endDate |-> 0, product |-> "", tid |-> "", otid |-> "",
     env |-> "", purchase |-> 0, expires |-> 0, autoRenew |-> FALSE,
     receipt |-> "", receiptInfo |-> ""]

RowIds == 1..Len(subs)

Min(S) == CHOOSE x \in S : \A y \in S : x <= y

\* GetSubscriptionByOriginalTransactionID without the project_id condition
GetSubscriptionByOriginalTransactionIDAnyProject(projectID, originalTransactionID) ==
    LET hit == {i \in RowIds : subs[i].otid = originalTransactionID}
    IN  IF hit = {} THEN 0 ELSE Min(hit)

\* .First() orders by primary key: the lowest matching row id, 0 when none
GetSubscriptionByOriginalTransactionID(projectID, originalTransactionID) ==
    LET hit == {i \in RowIds : subs[i].pid = projectID
                               /\ subs[i].otid = originalTransactionID}
    IN  IF hit = {} THEN 0 ELSE Min(hit)

FindSubscriptionByOriginalTransactionID(originalTransactionID) ==
    LET hit == {i \in RowIds : subs[i].otid = originalTransactionID}
    IN  IF hit = {} THEN 0 ELSE Min(hit)

\* GetActiveSubscription without the filter on app_account_token
GetActiveSubscriptionAnyToken(projectID, appAccountToken, t) ==
    LET hit == {i \in RowIds : /\ subs[i].pid = projectID
                               /\ subs[i].status = "active"
                               /\ subs[i].expires > t}
    IN  IF hit = {} THEN 0 ELSE Min(hit)

\* project_id = ? AND app_account_token = ? AND status = 'active' AND
\* expires_date > t, First: the lowest matching row id, 0 when none
GetActiveSubscription(projectID, appAccountToken, t) ==
    LET hit == {i \in RowIds : /\ subs[i].pid = projectID
                               /\ subs[i].token = appAccountToken
                               /\ subs[i].status = "active"
                               /\ subs[i].expires > t}
    IN  IF hit = {} THEN 0 ELSE Min(hit)

\* transaction_id carries a uniqueIndex: an INSERT fails if a row has the value
CreateFails(sub) == \E i \in RowIds : subs[i].tid = sub.tid

\* SaveFails that counts the saved row itself against the uniqueIndex
SaveFailsOnOwnRow(id, sub) == \E i \in RowIds : subs[i].tid = sub.tid

\* DB.Save on a loaded row: UPDATE of every column WHERE id = ?
SaveFails(id, sub) == \E i \in RowIds : i # id /\ subs[i].tid = sub.tid

getPlanFromProductID(productID) ==
    IF productID \in {"com.dailyzen.monthly", "monthly"} THEN "monthly"
    ELSE IF productID \in {"com.dailyzen.yearly", "yearly"} THEN "yearly"
    ELSE "basic"

\* time.Unix(ms/1000, 0)
UnixFromMS(ms) == ms \div 1000

-----------------------------------------------------------------------------
(* Request handlers.  A request record holds the handler's position (pc),   *)
(* its input (in), the project it resolved (project), the row id it        *)
(* located (found), the struct it read                                      *)
(* (snap), the struct it is about to write (sub), the statement it ran      *)
(* (op) and the HTTP status it answered (resp).                              *)

NoInput ==
    [kind |-> "none", ntype |-> "", uuid |-> "", signedDate |-> 0,
     sig |-> "absent", envelope |-> "ok", bundle |-> "", txOK |-> TRUE,
     tid |-> "", otid |-> "", token |-> "", expiresMS |-> 0, purchaseMS |-> 0,
     product |-> "", autoRenew |-> 0, env |-> "", deviceID |-> "",
     userID |-> "", apiStatus |-> 200, jws |-> "ok", billingRetry |-> FALSE,
     grace |-> FALSE, legacy |-> FALSE, appleStatus |-> 0, sandboxStatus |-> 0,
     hdrPid |-> "", hdrKey |-> "", qPid |-> "", qKey |-> "", bodyPid |-> "",
     sandboxEnv |-> "", gtype |-> 0, purchaseToken |-> "",
     signedTx |-> "", jwsBundle |-> ""]

\* the members is_active and status of GetSubscriptionStatusResponse
NoBody == [isActive |-> FALSE, status |-> ""]

IdleReq ==
    [pc |-> "idle", in |-> NoInput, project |-> NoProject, found |-> 0, snap |-> NoSub,
     sub |-> NoSub, op |-> "none", resp |-> 0, body |-> NoBody, calls |-> <<>>]

\* a slot takes a request before its first one and after it has answered one
Free(s) == req[s].pc \in {"idle", "done"} /\ started < MaxStarted

Finish(r, status, operation) ==
    [r EXCEPT !.pc = "done", !.resp = status, !.op = operation,
              !.found = 0, !.snap = NoSub, !.sub = NoSub]

-----------------------------------------------------------------------------
(* services.ReplayProtection *)

\* sha256("%s:%d") of the pair: injective on the pairs of the model
generateNotificationID(notificationUUID, timestamp) == <<notificationUUID, timestamp>>

\* the value IsReplay returns
IsReplay(notificationUUID, timestamp) ==
    /\ notificationUUID # ""
    /\ generateNotificationID(notificationUUID, timestamp) \in DOMAIN processedNotifications

\* the map IsReplay leaves behind
IsReplayRecord(notificationUUID, timestamp) ==
    IF notificationUUID = "" \/ IsReplay(notificationUUID, timestamp)
    THEN processedNotifications
    ELSE LET id == generateNotificationID(notificationUUID, timestamp)
         IN  [k \in DOMAIN processedNotifications \cup {id} |->
                 IF k = id THEN now ELSE processedNotifications[k]]

cleanupInterval == 3600

notificationTTL == 86400

\* cleanup with the tick interval in the place of the retention time
ExpiredAfterInterval(processedTime, t) == t - processedTime > cleanupInterval

\* Expired with an entry of exactly the retention time counted as expired
ExpiredAtTTL(processedTime, t) == t - processedTime >= notificationTTL

\* the test of cleanup: now.Sub(processedTime) > rp.notificationTTL
Expired(processedTime, t) == t - processedTime > notificationTTL

\* the map cleanup leaves behind
cleanup ==
    [k \in {id \in DOMAIN processedNotifications :
               ~Expired(processedNotifications[id], now)} |-> processedNotifications[k]]

NoCall ==
    [uuid |-> "", timestamp |-> 0, result |-> FALSE, made |-> FALSE,
     uuidSeen |-> FALSE, pairSeen |-> FALSE, swept |-> FALSE]

RpInit == [tick |-> 0, accepted |-> {}, call |-> NoCall, mutex |-> 0]

\* one call of IsReplay; rp.accepted remembers when each notification was accepted
ReplayCall(notificationUUID, timestamp) ==
    LET result == IsReplay(notificationUUID, timestamp)
        recent == {a \in rp.accepted : a.uuid = notificationUUID
                                       /\ now - a.at < notificationTTL}
        same   == {a \in recent : a.timestamp = timestamp}
    IN  /\ processedNotifications' = IsReplayRecord(notificationUUID, timestamp)
        /\ rp' = [rp EXCEPT
              !.accepted = IF result \/ notificationUUID = "" THEN @
                           ELSE @ \cup {[uuid |-> notificationUUID,
                                         timestamp |-> timestamp, at |-> now]},
              !.call = [uuid |-> notificationUUID, timestamp |-> timestamp,
                        result |-> result, made |-> TRUE,
                        uuidSeen |-> notificationUUID # "" /\ recent # {},
                        pairSeen |-> notificationUUID # "" /\ same # {},
                        swept |-> \E a \in same : a.at < rp.tick]]
        /\ UNCHANGED <<projects, subs, rowLock, req, now, outbound, mismatchLog,
                       wn, started, sv>>

\* startCleanupRoutine: the ticker fires once per cleanupInterval
SweeperTick ==
    /\ now > 0
    /\ now % cleanupInterval = 0
    /\ rp.tick < now
    /\ processedNotifications' = cleanup
    /\ rp' = [rp EXCEPT !.tick = now]
    /\ UNCHANGED <<projects, subs, rowLock, req, now, outbound, mismatchLog,
                   wn, started, sv>>

\* IsReplay called from a request goroutine, statement by statement; the
\* request record numbers the call in found.
\* With an empty UUID it returns false before it touches the mutex.
IsReplayEnter(s, in) ==
    /\ Free(s)
    /\ started' = started + 1
    /\ in.kind = "replay"
    /\ req' = [req EXCEPT ![s] =
          IF in.uuid = "" THEN Finish([IdleReq EXCEPT !.in = in], 0, "false")
          ELSE [IdleReq EXCEPT !.pc = "lock", !.in = in, !.found = started + 1]]
    /\ UNCHANGED <<projects, subs, rowLock, processedNotifications, now,
                   outbound, mismatchLog, wn, rp, sv>>

\* IsReplayLock with a lock that admits several holders, as RLock does
IsReplayLockShared(s) ==
    /\ req[s].pc = "lock"
    /\ rp' = [rp EXCEPT !.mutex = s]
    /\ req' = [req EXCEPT ![s].pc = "lookup"]
    /\ UNCHANGED <<projects, subs, rowLock, processedNotifications, now,
                   outbound, mismatchLog, wn, started, sv>>

\* rp.mutex.Lock(): waits while another goroutine holds the mutex
IsReplayLock(s) ==
    /\ req[s].pc = "lock"
    /\ rp.mutex = 0
    /\ rp' = [rp EXCEPT !.mutex = s]
    /\ req' = [req EXCEPT ![s].pc = "lookup"]
    /\ UNCHANGED <<projects, subs, rowLock, processedNotifications, now,
                   outbound, mismatchLog, wn, started, sv>>

\* processedTime, exists := rp.processedNotifications[notificationID]
IsReplayLookup(s) ==
    /\ req[s].pc = "lookup"
    /\ LET exists == IsReplay(req[s].in.uuid, req[s].in.signedDate)
       IN  req' = [req EXCEPT ![s].pc = IF exists THEN "unlock" ELSE "insert",
                              ![s].op = IF exists THEN "true" ELSE "false"]
    /\ UNCHANGED <<projects, subs, rowLock, processedNotifications, now,
                   outbound, mismatchLog, wn, started, rp, sv>>

\* rp.processedNotifications[notificationID] = time.Now()
IsReplayInsert(s) ==
    /\ req[s].pc = "insert"
    /\ LET id == generateNotificationID(req[s].in.uuid, req[s].in.signedDate)
       IN  processedNotifications' =
               [k \in DOMAIN processedNotifications \cup {id} |->
                   IF k = id THEN now ELSE processedNotifications[k]]
    /\ rp' = [rp EXCEPT !.accepted =
                 @ \cup {[uuid |-> req[s].in.uuid, timestamp |-> req[s].in.signedDate,
                          at |-> now, call |-> req[s].found]}]
    /\ req' = [req EXCEPT ![s].pc = "unlock"]
    /\ UNCHANGED <<projects, subs, rowLock, now, outbound, mismatchLog, wn, started, sv>>

\* the deferred rp.mutex.Unlock() and the return
IsReplayUnlock(s) ==
    /\ req[s].pc = "unlock"
    /\ rp' = [rp EXCEPT !.mutex = 0]
    /\ req' = [req EXCEPT ![s] = Finish(req[s], 0, req[s].op)]
    /\ UNCHANGED <<projects, subs, rowLock, processedNotifications, now,
                   outbound, mismatchLog, wn, started, sv>>

-----------------------------------------------------------------------------
(* services.SignatureVerifier *)

\* a parsed certificate: the key it certifies, the key that signed it, its
\* validity period and whether its Subject contains one of appleSubjects
NoCert == [key |-> "", signer |-> "", notBefore |-> 0, notAfter |-> 0, apple |-> FALSE]

NoCheck == [made |-> FALSE, chain |-> <<>>, at |-> 0, timestamp |-> 0,
            sigKey |-> "", decoded |-> FALSE, ok |-> FALSE]

\* the last call of getCertificateChain: when it ran and the PEM strings it
\* answered from certCache, each with the time it had been cached
NoLookup == [made |-> FALSE, at |-> 0, served |-> {}]

\* what x509.ParseCertificate makes of the PEM strings of the model; a
\* string outside the table does not parse
PemTable ==
    [pem \in {"pemA", "pemB"} |->
        IF pem = "pemA"
        THEN [key |-> "k1", signer |-> "k1", notBefore |-> 0, notAfter |-> 10,
              apple |-> FALSE]
        ELSE [key |-> "k2", signer |-> "k1", notBefore |-> 0, notAfter |-> 10,
              apple |-> TRUE]]

parseCertificate(certPEM) ==
    IF certPEM \in DOMAIN PemTable THEN PemTable[certPEM] ELSE NoCert

\* NewSignatureVerifier: an empty certCache, lastCertUpdate the zero time;
\* cachedAt remembers when each PEM string entered the cache
SvInit == [certCache |-> {}, cachedAt |-> [k \in {} |-> 0], lastCertUpdate |-> 0,
           check |-> NoCheck, lookup |-> NoLookup]

\* cert.CheckSignatureFrom(parent)
CheckSignatureFrom(cert, parent) == cert.signer = parent.key

\* now.Before(cert.NotBefore) || now.After(cert.NotAfter)
OutsideValidity(cert, t) == t < cert.notBefore \/ t > cert.notAfter

isAppleRootCertificate(cert) == cert.apple

\* verifyCertificateChain returns nil: the chain is not empty, every
\* certificate is within its validity period, every certificate but the
\* first passes CheckSignatureFrom(certChain[i-1]) (Go index i > 0), and
\* the last certificate is an Apple root
verifyCertificateChain(certChain, t) ==
    /\ Len(certChain) > 0
    /\ \A i \in 1..Len(certChain) :
          /\ ~OutsideValidity(certChain[i], t)
          /\ i > 1 => CheckSignatureFrom(certChain[i], certChain[i - 1])
    /\ isAppleRootCertificate(certChain[Len(certChain)])

\* getCertificateChain: the index of the first PEM string that is neither
\* cached nor parseable, 0 when the loop runs to its end
FirstUnparseable(certChain) ==
    LET bad == {i \in 1..Len(certChain) :
                   /\ certChain[i] \notin sv.certCache
                   /\ parseCertificate(certChain[i]) = NoCert}
    IN  IF bad = {} THEN 0 ELSE Min(bad)

\* the indices the loop of getCertificateChain gets through
Looked(certChain) ==
    IF FirstUnparseable(certChain) = 0 THEN 1..Len(certChain)
    ELSE 1..(FirstUnparseable(certChain) - 1)

\* the verifier after getCertificateChain: a cached PEM string is answered
\* from certCache, any other is parsed and stored in certCache
getCertificateChain(certChain) ==
    LET looked == {certChain[i] : i \in Looked(certChain)}
        hits   == looked \cap sv.certCache
        fresh  == looked \ sv.certCache
    IN  [sv EXCEPT
            !.certCache = @ \cup fresh,
            !.cachedAt = [k \in DOMAIN @ \cup fresh |->
                             IF k \in DOMAIN @ THEN @[k] ELSE now],
            !.lookup = [made |-> TRUE, at |-> now,
                        served |-> {[pem |-> k, cachedAt |-> sv.cachedAt[k]] : k \in hits}]]

\* certCacheTTL: time.Hour * 24
certCacheTTL == 86400

\* IsCacheValid: time.Since(v.lastCertUpdate) < v.certCacheTTL; no function
\* of the verifier calls it and none assigns lastCertUpdate a time
IsCacheValid == now - sv.lastCertUpdate < certCacheTTL

\* one call of getCertificateChain
GetCertificateChainCall(certChain) ==
    /\ sv' = getCertificateChain(certChain)
    /\ UNCHANGED <<projects, subs, rowLock, req, processedNotifications, now,
                   outbound, mismatchLog, wn, started, rp>>

\* the certificates getCertificateChain returns when it returns no error
Certificates(certChain) == [i \in 1..Len(certChain) |-> parseCertificate(certChain[i])]

\* verifySignature: the ECDSA signature over timestamp.body checks against
\* the key of the certificate given
verifySignature(sigKey, cert) == sigKey = cert.key

\* verifyTimestamp with the bounds themselves rejected
verifyTimestampExclusive(timestamp, t) ==
    ~(t - timestamp <= -300 \/ t - timestamp >= 300)

\* verifyTimestamp returns nil: timeDiff < -300 || timeDiff > 300 is an error
verifyTimestamp(timestamp, t) ==
    ~(t - timestamp < -300 \/ t - timestamp > 300)

\* VerifyNotification returns nil for the header hdr
VerifyNotification(hdr) ==
    /\ hdr.present
    /\ hdr.decodable
    /\ FirstUnparseable(hdr.chain) = 0
    /\ verifyCertificateChain(Certificates(hdr.chain), now)
    /\ verifySignature(hdr.sigKey, Certificates(hdr.chain)[1])
    /\ verifyTimestamp(hdr.timestamp, now)

\* one call of VerifyNotification; the certificate cache is filled whether or
\* not the later checks pass
VerifyNotificationCall(hdr) ==
    /\ sv' = IF hdr.present /\ hdr.decodable
             THEN [getCertificateChain(hdr.chain) EXCEPT
                      !.check = [made |-> TRUE, chain |-> hdr.chain, at |-> now,
                                 timestamp |-> hdr.timestamp, sigKey |-> hdr.sigKey,
                                 decoded |-> TRUE, ok |-> VerifyNotification(hdr)]]
             ELSE [sv EXCEPT
                      !.check = [made |-> TRUE, chain |-> hdr.chain, at |-> now,
                                 timestamp |-> hdr.timestamp, sigKey |-> hdr.sigKey,
                                 decoded |-> FALSE, ok |-> FALSE]]
    /\ UNCHANGED <<projects, subs, rowLock, req, processedNotifications, now,
                   outbound, mismatchLog, wn, started, rp>>

\* one call of verifyCertificateChain
VerifyChainCall(certChain) ==
    /\ sv' = [sv EXCEPT !.check = [NoCheck EXCEPT !.made = TRUE, !.chain = certChain,
                                      !.at = now,
                                      !.ok = verifyCertificateChain(certChain, now)]]
    /\ UNCHANGED <<projects, subs, rowLock, req, processedNotifications, now,
                   outbound, mismatchLog, wn, started, rp>>

-----------------------------------------------------------------------------
(* api.processAppStoreNotification *)

KnownTypes ==
    {"INITIAL_BUY", "SUBSCRIBED", "DID_RENEW", "RENEWAL_EXTENDED",
     "DID_FAIL_TO_RENEW", "DID_CANCEL", "DID_REFUND", "REVOKE",
     "EXPIRED", "GRACE_PERIOD_EXPIRED"}

\* CreateTypes with the renewal handled as handleInitialBuy is
CreateTypesWithRenewal == {"INITIAL_BUY", "SUBSCRIBED", "DID_RENEW"}

\* the types whose handler creates the row when it finds none
CreateTypes == {"INITIAL_BUY", "SUBSCRIBED"}

\* index of the first "webhooks" segment that is followed by another part, 0 if none
WebhooksAt(url) ==
    LET hit == {i \in 2..Len(url) : url[i] = "webhooks" /\ i < Len(url)}
    IN  IF hit = {} THEN 0 ELSE Min(hit)

extractBaseURL(webhookURL) ==
    IF WebhooksAt(webhookURL) # 0 THEN SubSeq(webhookURL, 1, WebhooksAt(webhookURL) - 1)
    ELSE IF Len(webhookURL) > 1 THEN SubSeq(webhookURL, 1, 1)
    ELSE webhookURL

\* the appAccountToken after the optional device-id lookup at the tenant
ResolvedToken(in, project) ==
    IF in.token # "" /\ project.callback # NoURL
       /\ extractBaseURL(project.callback) # NoURL /\ in.deviceID # ""
    THEN in.deviceID
    ELSE in.token

\* EarlyStatus without the Replay Guard return
EarlyStatusNoReplay(in) ==
    IF in.envelope = "empty" THEN 400
    ELSE IF in.sig = "invalid" THEN 401
    ELSE IF in.envelope = "malformed" THEN 400
    ELSE IF in.ntype = "" THEN 200
    ELSE IF GetProjectByBundleID(in.bundle) = NoProject THEN 400
    ELSE IF ~in.txOK THEN 400
    ELSE IF in.ntype \notin KnownTypes THEN 200
    ELSE 0

\* EarlyStatus with the heartbeat test after the Replay Guard
EarlyStatusLateHeartbeat(in) ==
    IF in.envelope = "empty" THEN 400
    ELSE IF in.sig = "invalid" THEN 401
    ELSE IF in.envelope = "malformed" THEN 400
    ELSE IF IsReplay(in.uuid, in.signedDate) THEN 400
    ELSE IF GetProjectByBundleID(in.bundle) = NoProject THEN 400
    ELSE IF in.ntype = "" THEN 200
    ELSE IF ~in.txOK THEN 400
    ELSE IF in.ntype \notin KnownTypes THEN 200
    ELSE 0

\* EarlyStatus without the default branch of handleNotificationByType
EarlyStatusNoDefault(in) ==
    IF in.envelope = "empty" THEN 400
    ELSE IF in.sig = "invalid" THEN 401
    ELSE IF in.envelope = "malformed" THEN 400
    ELSE IF in.ntype = "" THEN 200
    ELSE IF IsReplay(in.uuid, in.signedDate) THEN 400
    ELSE IF GetProjectByBundleID(in.bundle) = NoProject THEN 400
    ELSE IF ~in.txOK THEN 400
    ELSE 0

\* the steps of the handler that run before the status machine:
\* the HTTP status of an early return, or 0 when the handler goes on
EarlyStatus(in) ==
    IF in.envelope = "empty" THEN 400
    ELSE IF in.sig = "invalid" THEN 401
    ELSE IF in.envelope = "malformed" THEN 400
    ELSE IF in.ntype = "" THEN 200
    ELSE IF IsReplay(in.uuid, in.signedDate) THEN 400
    ELSE IF GetProjectByBundleID(in.bundle) = NoProject THEN 400
    ELSE IF ~in.txOK THEN 400
    ELSE IF in.ntype \notin KnownTypes THEN 200
    ELSE 0

\* ReachesReplayCheck with the Replay Guard placed before the signature check
ReachesReplayCheckUnverified(in) ==
    /\ in.envelope = "ok"
    /\ in.ntype # ""

\* IsReplay is reached only past the signature, envelope and heartbeat returns
ReachesReplayCheck(in) ==
    /\ in.envelope = "ok"
    /\ in.sig # "invalid"
    /\ in.ntype # ""

WebhookStart(s, in) ==
    /\ Free(s)
    /\ started' = started + 1
    /\ in.kind = "webhook"
    /\ LET project == GetProjectByBundleID(in.bundle)
           status  == EarlyStatus(in)
           in2     == [in EXCEPT !.token = ResolvedToken(in, project)]
       IN  /\ processedNotifications' =
                 IF ReachesReplayCheck(in) THEN IsReplayRecord(in.uuid, in.signedDate)
                 ELSE processedNotifications
           /\ req' = [req EXCEPT ![s] =
                 IF status # 0
                 THEN Finish([IdleReq EXCEPT !.in = in], status, "none")
                 ELSE [IdleReq EXCEPT !.pc = "read", !.in = in2, !.project = project]]
    /\ UNCHANGED <<projects, subs, rowLock, now, outbound, mismatchLog, wn, rp, sv>>

\* the subscription struct handleInitialBuy creates
NewSubscription(in, projectID) ==
    [pid |-> projectID, token |-> in.token, platform |-> "ios",
     plan |-> getPlanFromProductID(in.product), status |-> "active",
     startDate |-> UnixFromMS(in.purchaseMS), endDate |-> UnixFromMS(in.expiresMS),
     product |-> in.product, tid |-> in.tid, otid |-> in.otid, env |-> in.env,
     purchase |-> UnixFromMS(in.purchaseMS), expires |-> UnixFromMS(in.expiresMS),
     autoRenew |-> (in.autoRenew = 1), receipt |-> "", receiptInfo |-> ""]

\* "If subscription has no appAccountToken but we have one, bind it"
BindIfEmpty(snap, token) ==
    IF snap.token = "" /\ token # "" THEN [snap EXCEPT !.token = token] ELSE snap

Renewed(in, snap) ==
    [BindIfEmpty(snap, in.token) EXCEPT !.status = "active",
         !.expires = UnixFromMS(in.expiresMS), !.autoRenew = (in.autoRenew = 1)]

\* Stopped with the auto-renew flag of the row left as it was
StoppedKeepingAutoRenew(in, snap, status) ==
    [BindIfEmpty(snap, in.token) EXCEPT !.status = status]

\* Stopped with the expiresDate of the notification stored as handleDidRenew does
StoppedTakingExpires(in, snap, status) ==
    [BindIfEmpty(snap, in.token) EXCEPT !.status = status, !.autoRenew = FALSE,
         !.expires = UnixFromMS(in.expiresMS)]

\* the struct handleDidFailToRenew, handleDidCancel, handleDidRefund and
\* handleExpired save: the loaded row with the token bound if it had none,
\* the status of the handler and auto-renew off
Stopped(in, snap, status) ==
    [BindIfEmpty(snap, in.token) EXCEPT !.status = status, !.autoRenew = FALSE]

\* the struct each handler saves over an existing row
handleNotificationByType(in, snap) ==
    CASE in.ntype \in {"INITIAL_BUY", "SUBSCRIBED"}       -> Renewed(in, snap)
      [] in.ntype \in {"DID_RENEW", "RENEWAL_EXTENDED"}    -> Renewed(in, snap)
      [] in.ntype = "DID_FAIL_TO_RENEW"                    -> Stopped(in, snap, "failed")
      [] in.ntype = "DID_CANCEL"                           -> Stopped(in, snap, "cancelled")
      [] in.ntype \in {"DID_REFUND", "REVOKE"}             -> Stopped(in, snap, "refunded")
      [] in.ntype \in {"EXPIRED", "GRACE_PERIOD_EXPIRED"}  -> Stopped(in, snap, "expired")

\* GetSubscriptionByOriginalTransactionID inside the handler
WebhookRead(s) ==
    /\ req[s].pc = "read"
    /\ req[s].in.kind = "webhook"
    /\ LET r  == req[s]
           id == GetSubscriptionByOriginalTransactionID(r.project.pid, r.in.otid)
       IN  req' = [req EXCEPT ![s] =
               IF id = 0 /\ r.in.ntype \notin CreateTypes
               THEN Finish(r, 500, "none")
               ELSE [r EXCEPT !.pc = "write", !.found = id,
                              !.snap = IF id = 0 THEN NoSub ELSE subs[id],
                              !.sub = IF id = 0 THEN NewSubscription(r.in, r.project.pid)
                                      ELSE handleNotificationByType(r.in, subs[id])]]
    /\ UNCHANGED <<projects, subs, rowLock, processedNotifications, now,
                   outbound, mismatchLog, wn, started, rp, sv>>

\* Dispatch without the test of the callback URL
DispatchUnconditional(s, project, sub) ==
    outbound \cup {[from |-> s, url |-> project.callback,
                    secret |-> project.secret, sub |-> sub]}

\* go NotifyAppBackend(...) when project.WebhookCallbackURL != ""
Dispatch(s, project, sub) ==
    IF project.callback # NoURL
    THEN outbound \cup {[from |-> s, url |-> project.callback,
                         secret |-> project.secret, sub |-> sub]}
    ELSE outbound

\* database.CreateSubscription / database.UpdateSubscription, then the
\* notifier goroutine and the 200 answer
WebhookWrite(s) ==
    /\ req[s].pc = "write"
    /\ req[s].in.kind = "webhook"
    /\ LET r  == req[s]
           failed == IF r.found = 0 THEN CreateFails(r.sub) ELSE SaveFails(r.found, r.sub)
       IN  /\ r.found # 0 => rowLock[r.found] = 0
           /\ subs' = IF failed THEN subs
                      ELSE IF r.found = 0 THEN Append(subs, r.sub)
                      ELSE [subs EXCEPT ![r.found] = r.sub]
           /\ rowLock' = IF ~failed /\ r.found = 0 THEN Append(rowLock, 0) ELSE rowLock
           /\ outbound' = IF failed THEN outbound ELSE Dispatch(s, r.project, r.sub)
           /\ req' = [req EXCEPT ![s] =
                 IF failed THEN Finish(r, 500, "none")
                 ELSE Finish(r, 200, IF r.found = 0 THEN "insert" ELSE "update")]
    /\ UNCHANGED <<projects, processedNotifications, now, mismatchLog, wn, started, rp, sv>>

-----------------------------------------------------------------------------
(* api.VerifySubscription and services.VerifyAppleTransaction *)

\* strings.ToLower on the environment names Apple sends
ToLower(str) ==
    CASE str \in {"Production", "PRODUCTION", "production"} -> "production"
      [] str \in {"Sandbox", "SANDBOX", "sandbox"}          -> "sandbox"
      [] OTHER                                              -> str

NormalizeEnvironment(environment) ==
    IF ToLower(environment) = "production" THEN "production" ELSE "sandbox"

\* status := "active"; expired, billing_retry and grace_period override in turn
DeriveStatus(expiresDate, isInBillingRetry, isInGracePeriod, t) ==
    IF isInGracePeriod THEN "grace_period"
    ELSE IF isInBillingRetry THEN "billing_retry"
    ELSE IF expiresDate < t THEN "expired"
    ELSE "active"

\* finalUserID: the appAccountToken of the API answer wins over the caller's user_id
FinalUserID(in) == IF in.token # "" THEN in.token ELSE in.userID

\* the subscription struct VerifyAppleTransaction builds from the API answer
VerifiedSubscription(in, projectID, t) ==
    [pid |-> projectID, token |-> FinalUserID(in), platform |-> "ios",
     plan |-> getPlanFromProductID(in.product),
     status |-> DeriveStatus(UnixFromMS(in.expiresMS), in.billingRetry, in.grace, t),
     startDate |-> UnixFromMS(in.purchaseMS), endDate |-> UnixFromMS(in.expiresMS),
     product |-> in.product, tid |-> in.tid, otid |-> in.otid,
     env |-> NormalizeEnvironment(in.env),
     purchase |-> UnixFromMS(in.purchaseMS), expires |-> UnixFromMS(in.expiresMS),
     autoRenew |-> TRUE, receipt |-> "jws", receiptInfo |-> "body"]

\* parseAppleTimestamp of a stamp of whole seconds given in milliseconds
parseAppleTimestamp(ms) == ms \div 1000

\* the status of the verifyReceipt answer VerifyAppleReceipt ends with:
\* production first, the sandbox URL when production answers 21007
VerifyAppleReceiptStatus(in) ==
    IF in.appleStatus = 21007 THEN in.sandboxStatus ELSE in.appleStatus

\* the subscription struct verifyWithApple builds from latest_receipt_info
ReceiptSubscription(in, projectID, t) ==
    [pid |-> projectID, token |-> in.userID, platform |-> "ios",
     plan |-> getPlanFromProductID(in.product),
     status |-> IF parseAppleTimestamp(in.expiresMS) < t THEN "expired" ELSE "active",
     startDate |-> parseAppleTimestamp(in.purchaseMS),
     endDate |-> parseAppleTimestamp(in.expiresMS),
     product |-> in.product, tid |-> in.tid, otid |-> in.otid,
     env |-> IF in.appleStatus = 21007 THEN in.sandboxEnv ELSE in.env,
     purchase |-> parseAppleTimestamp(in.purchaseMS),
     expires |-> parseAppleTimestamp(in.expiresMS),
     autoRenew |-> TRUE, receipt |-> "latest_receipt", receiptInfo |-> "body"]

\* UpstreamFails without the test of the verifyReceipt status
UpstreamFailsIgnoringStatus(in) ==
    IF in.legacy THEN FALSE
    ELSE in.apiStatus # 200 \/ in.jws # "ok"

\* the store's answer makes VerifyAppleReceipt / VerifyAppleTransaction return
\* an error before CreateOrUpdateSubscription: a verifyReceipt status other
\* than 0; an API answer other than 200; a signedTransactionInfo that has not
\* three parts ("parts"), whose payload is not base64url ("base64") or not
\* JSON ("json")
UpstreamFails(in) ==
    IF in.legacy THEN VerifyAppleReceiptStatus(in) # 0
    ELSE in.apiStatus # 200 \/ in.jws # "ok"

\* the verifyReceipt endpoints VerifyAppleReceipt calls, in order
VerifyAppleReceiptCalls(in) ==
    IF in.appleStatus = 21007 THEN <<"production", "sandbox">> ELSE <<"production">>

\* extractBundleIDFromJWT: the bundleId claim of signed_transaction, "" when
\* the string has not three parts or carries no such claim
extractBundleIDFromJWT(in) == IF in.signedTx = "" THEN "" ELSE in.jwsBundle

\* ResolveVerifyProject that turns to signed_transaction when app_id names no project
ResolveVerifyProjectFallingBack(in) ==
    IF in.bundle # "" /\ GetProjectByBundleID(in.bundle) # NoProject
    THEN GetProjectByBundleID(in.bundle)
    ELSE IF in.signedTx # "" /\ extractBundleIDFromJWT(in) # ""
    THEN GetProjectByBundleID(extractBundleIDFromJWT(in))
    ELSE NoProject

\* the project VerifySubscription resolves for an iOS request, NoProject when
\* it answers 400: by app_id if given, else by the bundleId of signed_transaction
ResolveVerifyProject(in) ==
    IF in.bundle # "" THEN GetProjectByBundleID(in.bundle)
    ELSE IF in.signedTx # "" /\ extractBundleIDFromJWT(in) # ""
    THEN GetProjectByBundleID(extractBundleIDFromJWT(in))
    ELSE NoProject

\* the external calls of the verification service, in order: verifyReceipt for
\* a receipt, the App Store Server API for a transaction of an active project
VerificationCalls(in, project) ==
    IF in.legacy THEN VerifyAppleReceiptCalls(in)
    ELSE IF in.tid # "" /\ GetActiveProjectByID(project.pid) # NoProject
    THEN <<"transactions">>
    ELSE <<>>

\* request validation, project resolution, the call of the store
VerifyStart(s, in) ==
    /\ Free(s)
    /\ started' = started + 1
    /\ in.kind = "verify"
    /\ LET project == ResolveVerifyProject(in)
           ok == /\ in.userID # ""
                 /\ project # NoProject
                 /\ GetActiveProjectByID(project.pid) # NoProject
                 /\ ~UpstreamFails(in)
           calls == IF in.userID # "" /\ project # NoProject
                    THEN VerificationCalls(in, project) ELSE <<>>
       IN  req' = [req EXCEPT ![s] =
               IF ~ok THEN Finish([IdleReq EXCEPT !.in = in, !.calls = calls], 400, "none")
               ELSE [IdleReq EXCEPT !.pc = "read", !.in = in, !.project = project,
                                    !.calls = calls,
                                    !.sub = IF in.legacy
                                            THEN ReceiptSubscription(in, project.pid, now)
                                            ELSE VerifiedSubscription(in, project.pid, now)]]
    /\ UNCHANGED <<projects, subs, rowLock, processedNotifications, now,
                   outbound, mismatchLog, wn, rp, sv>>

\* VerifyRead with a call of the App Store Server API made after the SELECT
\* ... FOR UPDATE, inside the transaction
VerifyReadCallingStore(s) ==
    /\ req[s].pc = "read"
    /\ req[s].in.kind = "verify"
    /\ LET r  == req[s]
           id == GetSubscriptionByOriginalTransactionID(r.sub.pid, r.sub.otid)
       IN  /\ id # 0 => rowLock[id] = 0
           /\ rowLock' = IF id = 0 THEN rowLock ELSE [rowLock EXCEPT ![id] = s]
           /\ req' = [req EXCEPT ![s] =
                 [r EXCEPT !.pc = "write", !.found = id,
                           !.snap = IF id = 0 THEN NoSub ELSE subs[id],
                           !.calls = Append(@, "transactions")]]
    /\ UNCHANGED <<projects, subs, processedNotifications, now,
                   outbound, mismatchLog, wn, started, rp, sv>>

\* CreateOrUpdateSubscription, first statement: SELECT ... FOR UPDATE.
\* It waits while another transaction holds the lock of the row it selects.
VerifyRead(s) ==
    /\ req[s].pc = "read"
    /\ req[s].in.kind = "verify"
    /\ LET r  == req[s]
           id == GetSubscriptionByOriginalTransactionID(r.sub.pid, r.sub.otid)
       IN  /\ id # 0 => rowLock[id] = 0
           /\ rowLock' = IF id = 0 THEN rowLock ELSE [rowLock EXCEPT ![id] = s]
           /\ req' = [req EXCEPT ![s] =
                 [r EXCEPT !.pc = "write", !.found = id,
                           !.snap = IF id = 0 THEN NoSub ELSE subs[id]]]
    /\ UNCHANGED <<projects, subs, processedNotifications, now,
                   outbound, mismatchLog, wn, started, rp, sv>>

\* the appAccountToken CreateOrUpdateSubscription leaves in the existing row
MergedToken(existing, incoming) ==
    IF existing.token = "" /\ incoming.token # "" THEN incoming.token ELSE existing.token

\* the existing row after "更新其他字段"
MergedSubscription(existing, incoming) ==
    [existing EXCEPT !.token = MergedToken(existing, incoming),
        !.status = incoming.status, !.startDate = incoming.startDate,
        !.endDate = incoming.endDate, !.expires = incoming.expires,
        !.autoRenew = incoming.autoRenew, !.receipt = incoming.receipt,
        !.receiptInfo = incoming.receiptInfo, !.plan = incoming.plan,
        !.product = incoming.product, !.tid = incoming.tid,
        !.env = incoming.env, !.purchase = incoming.purchase]

TokenMismatch(existing, incoming) ==
    /\ existing.token # ""
    /\ incoming.token # ""
    /\ existing.token # incoming.token

\* CreateOrUpdateSubscription, the INSERT or the UPDATE, and the commit;
\* then the notifier goroutine and the answer of VerifySubscription
VerifyWrite(s) ==
    /\ req[s].pc = "write"
    /\ req[s].in.kind = "verify"
    /\ LET r  == req[s]
           merged == MergedSubscription(r.snap, r.sub)
           failed == IF r.found = 0 THEN CreateFails(r.sub) ELSE SaveFails(r.found, merged)
       IN  /\ subs' = IF failed THEN subs
                      ELSE IF r.found = 0 THEN Append(subs, r.sub)
                      ELSE [subs EXCEPT ![r.found] = merged]
           /\ rowLock' = IF r.found # 0 THEN [rowLock EXCEPT ![r.found] = 0]
                         ELSE IF failed THEN rowLock ELSE Append(rowLock, 0)
           /\ mismatchLog' =
                 IF r.found # 0 /\ TokenMismatch(r.snap, r.sub)
                 THEN mismatchLog \cup {[otid |-> r.sub.otid, existing |-> r.snap.token,
                                         new |-> r.sub.token]}
                 ELSE mismatchLog
           /\ outbound' = IF failed THEN outbound ELSE Dispatch(s, r.project, r.sub)
           /\ req' = [req EXCEPT ![s] =
                 IF failed THEN Finish(r, 400, "none")
                 ELSE Finish(r, 200, IF r.found = 0 THEN "insert" ELSE "update")]
    /\ UNCHANGED <<projects, processedNotifications, now, wn, started, rp, sv>>

-----------------------------------------------------------------------------
(* middleware.ProjectAuthMiddleware and api.VerifyApple *)

\* header first, the query parameter when the header is empty
SuppliedProjectID(in) == IF in.hdrPid = "" THEN in.qPid ELSE in.hdrPid

SuppliedAPIKey(in) == IF in.hdrKey = "" THEN in.qKey ELSE in.hdrKey

\* the status the middleware aborts with, 0 when it calls c.Next()
ProjectAuthMiddleware(in) ==
    IF SuppliedProjectID(in) = "" \/ SuppliedAPIKey(in) = "" THEN 401
    ELSE IF ~ValidateProject(SuppliedProjectID(in), SuppliedAPIKey(in)) THEN 401
    ELSE 0

\* a request to POST /api/verify/apple enters the middleware; on success
\* c.Set("project_id", projectID) and the handler is next
AuthStart(s, in) ==
    /\ Free(s)
    /\ started' = started + 1
    /\ in.kind = "verify_apple"
    /\ req' = [req EXCEPT ![s] =
          IF ProjectAuthMiddleware(in) # 0
          THEN Finish([IdleReq EXCEPT !.in = in], ProjectAuthMiddleware(in), "none")
          ELSE [IdleReq EXCEPT !.pc = "handler", !.in = in,
                   !.project = [NoProject EXCEPT !.pid = SuppliedProjectID(in)]]]
    /\ UNCHANGED <<projects, subs, rowLock, processedNotifications, now,
                   outbound, mismatchLog, wn, rp, sv>>

\* the project id VerifyApple hands to VerifyAppleTransaction:
\* "如果请求中提供了 project_id，使用请求中的（允许覆盖）"
VerifyAppleProjectID(in) == IF in.bodyPid # "" THEN in.bodyPid ELSE in.hdrPid

\* the handler VerifyApple: its own header check, VerifyAppleTransaction with
\* an empty userID (CreateOrUpdateSubscription included, one transaction on a
\* row nobody holds), and the answer
VerifyAppleHandler(s) ==
    /\ req[s].pc = "handler"
    /\ req[s].in.kind = "verify_apple"
    /\ LET r == req[s]
           in == r.in
           project == GetActiveProjectByID(in.hdrPid)
           projectID == VerifyAppleProjectID(in)
           built == VerifiedSubscription([in EXCEPT !.userID = ""], projectID, now)
           id == GetSubscriptionByOriginalTransactionID(projectID, built.otid)
           merged == MergedSubscription(subs[id], built)
           failed == IF id = 0 THEN CreateFails(built) ELSE SaveFails(id, merged)
           early == IF in.hdrPid = "" \/ in.hdrKey = "" THEN 401
                    ELSE IF project = NoProject \/ project.apiKey # in.hdrKey THEN 401
                    ELSE IF GetActiveProjectByID(projectID) = NoProject THEN 400
                    ELSE IF UpstreamFails(in) THEN 400
                    ELSE 0
       IN  /\ (early = 0 /\ id # 0) => rowLock[id] = 0
           /\ IF early # 0 \/ failed
              THEN /\ req' = [req EXCEPT ![s] =
                               Finish(r, IF early # 0 THEN early ELSE 400, "none")]
                   /\ UNCHANGED <<subs, rowLock, mismatchLog>>
              ELSE /\ subs' = IF id = 0 THEN Append(subs, built)
                              ELSE [subs EXCEPT ![id] = merged]
                   /\ rowLock' = IF id = 0 THEN Append(rowLock, 0) ELSE rowLock
                   /\ mismatchLog' =
                         IF id # 0 /\ TokenMismatch(subs[id], built)
                         THEN mismatchLog \cup {[otid |-> built.otid,
                                                 existing |-> subs[id].token,
                                                 new |-> built.token]}
                         ELSE mismatchLog
                   /\ req' = [req EXCEPT ![s] =
                         [Finish(r, IF built.token = "" THEN 400 ELSE 200,
                                 IF id = 0 THEN "insert" ELSE "update")
                          EXCEPT !.found = IF id = 0 THEN Len(subs) + 1 ELSE id]]
    /\ UNCHANGED <<projects, processedNotifications, now, outbound, wn, started, rp, sv>>

-----------------------------------------------------------------------------
(* api.BindAccount *)

\* request validation and FindSubscriptionByOriginalTransactionID
BindStart(s, in) ==
    /\ Free(s)
    /\ started' = started + 1
    /\ in.kind = "bind"
    /\ LET id == FindSubscriptionByOriginalTransactionID(in.otid)
       IN  req' = [req EXCEPT ![s] =
               IF in.userID = "" \/ in.otid = ""
               THEN Finish([IdleReq EXCEPT !.in = in], 400, "none")
               ELSE IF id = 0 THEN Finish([IdleReq EXCEPT !.in = in], 404, "none")
               ELSE [IdleReq EXCEPT !.pc = "write", !.in = in, !.found = id,
                        !.snap = subs[id],
                        !.sub = [subs[id] EXCEPT !.token = in.userID]]]
    /\ UNCHANGED <<projects, subs, rowLock, processedNotifications, now,
                   outbound, mismatchLog, wn, rp, sv>>

\* subscription.UserID = req.UserID; database.UpdateSubscription
BindWrite(s) ==
    /\ req[s].pc = "write"
    /\ req[s].in.kind = "bind"
    /\ LET r == req[s]
           failed == SaveFails(r.found, r.sub)
       IN  /\ rowLock[r.found] = 0
           /\ subs' = IF failed THEN subs ELSE [subs EXCEPT ![r.found] = r.sub]
           /\ req' = [req EXCEPT ![s] =
                 IF failed THEN Finish(r, 500, "none") ELSE Finish(r, 200, "update")]
    /\ UNCHANGED <<projects, rowLock, processedNotifications, now,
                   outbound, mismatchLog, wn, started, rp, sv>>

-----------------------------------------------------------------------------
(* api.GooglePlayWebhookHandler and services.VerifyGooglePlayPurchase *)

\* VerifyGooglePlayPurchase returns "Google Play verification not yet
\* implemented" on every call
VerifyGooglePlayPurchaseFails == TRUE

\* the switch on notificationType applied to the status of the subscription
GooglePlayStatus(notificationType, status) ==
    CASE notificationType \in {1, 2, 4, 7} -> "active"
      [] notificationType = 3 -> "cancelled"
      [] notificationType = 5 -> "on_hold"
      [] notificationType = 6 -> "grace_period"
      [] notificationType = 9 -> "deferred"
      [] notificationType = 10 -> "paused"
      [] notificationType = 12 -> "revoked"
      [] notificationType = 13 -> "expired"
      [] OTHER -> status

\* the whole handler: required fields, the first active project, the
\* verification call; the switch and the save come after a successful
\* verification only
GooglePlayWebhookHandler(s, in) ==
    /\ Free(s)
    /\ started' = started + 1
    /\ in.kind = "google"
    /\ LET project == FirstActiveProject
           early == IF in.purchaseToken = "" \/ in.product = "" THEN 400
                    ELSE IF project = NoProject THEN 400
                    ELSE IF VerifyGooglePlayPurchaseFails THEN 200
                    ELSE 0
           verified == [NoSub EXCEPT !.pid = project.pid, !.platform = "android",
                                     !.product = in.product,
                                     !.receipt = in.purchaseToken]
           saved == [verified EXCEPT !.status = GooglePlayStatus(in.gtype, @)]
       IN  IF early # 0
           THEN /\ req' = [req EXCEPT ![s] =
                            Finish([IdleReq EXCEPT !.in = in], early, "none")]
                /\ UNCHANGED <<subs, rowLock, outbound>>
           ELSE /\ subs' = Append(subs, saved)
                /\ rowLock' = Append(rowLock, 0)
                /\ outbound' = Dispatch(s, project, saved)
                /\ req' = [req EXCEPT ![s] =
                            Finish([IdleReq EXCEPT !.in = in, !.project = project],
                                   200, "insert")]
    /\ UNCHANGED <<projects, processedNotifications, now, mismatchLog, wn, rp, sv>>

-----------------------------------------------------------------------------
(* api.GetSubscriptionStatus *)

\* parameter validation, project resolution by app_id and the query
\* GetActiveSubscription, which reads the clock
StatusStart(s, in) ==
    /\ Free(s)
    /\ started' = started + 1
    /\ in.kind = "status"
    /\ LET project == GetProjectByBundleID(in.bundle)
           id == GetActiveSubscription(project.pid, in.userID, now)
       IN  req' = [req EXCEPT ![s] =
               IF in.userID = "" \/ in.bundle = ""
               THEN Finish([IdleReq EXCEPT !.in = in], 400, "none")
               ELSE IF project = NoProject
               THEN Finish([IdleReq EXCEPT !.in = in], 400, "none")
               ELSE IF id = 0
               THEN Finish([IdleReq EXCEPT !.in = in, !.project = project,
                               !.body = [isActive |-> FALSE, status |-> "inactive"]],
                           200, "none")
               ELSE [IdleReq EXCEPT !.pc = "answer", !.in = in, !.project = project,
                                    !.found = id, !.snap = subs[id]]]
    /\ UNCHANGED <<projects, subs, rowLock, processedNotifications, now,
                   outbound, mismatchLog, wn, rp, sv>>

\* "Check if subscription is still active", a second reading of the clock,
\* and the answer built from the row that was found
StatusAnswer(s) ==
    /\ req[s].pc = "answer"
    /\ req[s].in.kind = "status"
    /\ LET r == req[s]
           isActive == r.snap.status = "active" /\ r.snap.expires > now
       IN  req' = [req EXCEPT ![s] =
               [Finish(r, 200, "none") EXCEPT
                   !.found = r.found,
                   !.body = [isActive |-> isActive, status |-> r.snap.status]]]
    /\ UNCHANGED <<projects, subs, rowLock, processedNotifications, now,
                   outbound, mismatchLog, wn, started, rp, sv>>

-----------------------------------------------------------------------------
(* the wall clock *)

Tick ==
    /\ now < MaxNow
    /\ now' = now + 1
    /\ UNCHANGED <<projects, subs, rowLock, req, processedNotifications,
                   outbound, mismatchLog, wn, started, rp, sv>>

-----------------------------------------------------------------------------
(* services.WebhookNotifier: NotifyAppBackend and sendWithRetry, one run *)

\* WebhookPayload before NotifyAppBackend has filled it
NoPayload == <<>>

WnIdle ==
    [state |-> "idle", url |-> NoURL, secret |-> "", payload |-> NoPayload,
     attempt |-> 0, clock |-> 0, sent |-> <<>>, slept |-> <<>>, log |-> <<>>]

\* time.Time.Format(time.RFC3339) of a time given in seconds
FormatRFC3339(t) == <<"RFC3339", t>>

\* WebhookPayload built by NotifyAppBackend at time t
WebhookPayload(subscription, t) ==
    [event |-> "subscription.updated",
     transaction_id |-> subscription.tid,
     original_transaction_id |-> subscription.otid,
     app_account_token |-> subscription.token,
     status |-> subscription.status,
     product_id |-> subscription.product,
     expires_date |-> FormatRFC3339(subscription.expires),
     platform |-> subscription.platform,
     timestamp |-> FormatRFC3339(t)]

\* json.Marshal of a WebhookPayload: the members in declaration order
Marshal(payload) ==
    << <<"event", payload.event>>,
       <<"transaction_id", payload.transaction_id>>,
       <<"original_transaction_id", payload.original_transaction_id>>,
       <<"app_account_token", payload.app_account_token>>,
       <<"status", payload.status>>,
       <<"product_id", payload.product_id>>,
       <<"expires_date", payload.expires_date>>,
       <<"platform", payload.platform>>,
       <<"timestamp", payload.timestamp>> >>

\* hex.EncodeToString of the HMAC-SHA256 of message under key: a symbolic
\* digest, equal for equal key and message only
HexHmacSha256(key, message) == <<"hex", "hmac-sha256", key, message>>

\* generateSignature keyed with the empty string instead of the secret
generateSignatureUnkeyed(payload, secret) == HexHmacSha256("", payload)

generateSignature(payload, secret) == HexHmacSha256(secret, payload)

\* seconds
retryDelays == <<1, 5, 30>>

maxRetries == Len(retryDelays)

\* sendWebhook with the upper limit of the status test left out
SendSucceededNoUpperLimit(status) == status >= 200

\* sendWebhook returns nil: the request was answered (status 0 stands for a
\* transport error or the 10 s timeout) with a status in 200..299
SendSucceeded(status) == status # 0 /\ ~(status < 200 \/ status >= 300)

\* NotifyAppBackend up to the call of sendWithRetry
NotifyAppBackend(callbackURL, secret, subscription) ==
    /\ wn.state = "idle"
    /\ wn' = IF callbackURL = NoURL THEN [wn EXCEPT !.state = "skipped"]
             ELSE [wn EXCEPT !.state = "sending", !.url = callbackURL, !.secret = secret,
                             !.payload = WebhookPayload(subscription, now)]
    /\ UNCHANGED <<projects, subs, rowLock, req, processedNotifications, now,
                   outbound, mismatchLog, started, rp, sv>>

\* sendWithRetry whose failure is written into the answers of the handlers
SendAttemptPropagating(status) ==
    /\ wn.state = "sending"
    /\ wn.attempt < maxRetries
    /\ wn' = [wn EXCEPT !.state = "done", !.attempt = @ + 1,
                        !.sent = Append(@, [at |-> wn.clock, status |-> status,
                                            body |-> Marshal(wn.payload), headers |-> {}])]
    /\ req' = [s \in Slots |->
                 IF SendSucceeded(status) \/ req[s].pc # "done" THEN req[s]
                 ELSE [req[s] EXCEPT !.resp = 500]]
    /\ UNCHANGED <<projects, subs, rowLock, processedNotifications, now,
                   outbound, mismatchLog, started, rp, sv>>

\* one iteration of the loop of sendWithRetry, the tenant answering with status;
\* the iteration that ends the loop also writes the terminal log line
SendAttempt(status) ==
    /\ wn.state = "sending"
    /\ wn.attempt < maxRetries
    /\ LET jsonData == Marshal(wn.payload)
           headers == {<<"Content-Type", "application/json">>,
                       <<"User-Agent", "UnionHub-Webhook/1.0">>}
                      \cup (IF wn.secret # ""
                            THEN {<<"X-UnionHub-Signature",
                                    generateSignature(jsonData, wn.secret)>>}
                            ELSE {})
           sent == Append(wn.sent, [at |-> wn.clock, status |-> status,
                                    body |-> jsonData, headers |-> headers])
           wait == wn.attempt < maxRetries - 1
           delay == IF wait THEN retryDelays[wn.attempt + 1] ELSE 0
           last == wn.attempt + 1 = maxRetries
       IN  wn' = IF SendSucceeded(status)
                 THEN [wn EXCEPT !.state = "done", !.sent = sent,
                                 !.log = Append(@, "sent")]
                 ELSE [wn EXCEPT !.sent = sent,
                          !.attempt = @ + 1,
                          !.clock = @ + delay,
                          !.slept = IF wait THEN Append(@, delay) ELSE @,
                          !.log = IF last THEN @ \o <<"failed", "gave_up">>
                                  ELSE Append(@, "failed"),
                          !.state = IF last THEN "done" ELSE "sending"]
    /\ UNCHANGED <<projects, subs, rowLock, req, processedNotifications, now,
                   outbound, mismatchLog, started, rp, sv>>

-----------------------------------------------------------------------------
(* Specification Spec: two concurrent request handlers over one purchase   *)

ExpiresChoices == {1500, 9000}

StoreWebhookInputs ==
    { [NoInput EXCEPT !.kind = "webhook", !.ntype = nt, !.bundle = "bA",
                      !.tid = t, !.otid = "o1", !.token = k, !.expiresMS = 9000,
                      !.purchaseMS = 0, !.product = "monthly", !.autoRenew = 1,
                      !.env = "Production"] :
        nt \in {"SUBSCRIBED", "DID_RENEW", "DID_REFUND"}, t \in TIDs,
        k \in {""} \cup Tokens }

StoreVerifyInputs ==
    { [NoInput EXCEPT !.kind = "verify", !.bundle = "bA", !.tid = t, !.otid = "o1",
                      !.token = k, !.userID = u, !.expiresMS = e, !.purchaseMS = 0,
                      !.product = "monthly", !.env = "Production"] :
        t \in TIDs, k \in {"", "U2"}, u \in Tokens, e \in ExpiresChoices }

StoreBindInputs ==
    { [NoInput EXCEPT !.kind = "bind", !.otid = "o1", !.userID = u] : u \in Tokens }

Init ==
    /\ projects = ProjectRows
    /\ subs = <<>>
    /\ rowLock = <<>>
    /\ req = [s \in Slots |-> IdleReq]
    /\ processedNotifications = [k \in {} |-> 0]
    /\ now = 0
    /\ outbound = {}
    /\ mismatchLog = {}
    /\ wn = WnIdle
    /\ started = 0
    /\ rp = RpInit
    /\ sv = SvInit

StartWebhook == \E s \in Slots, in \in StoreWebhookInputs : WebhookStart(s, in)

StartVerify == \E s \in Slots, in \in StoreVerifyInputs : VerifyStart(s, in)

StartBind == \E s \in Slots, in \in StoreBindInputs : BindStart(s, in)

StepWebhookRead == \E s \in Slots : WebhookRead(s)

StepWebhookWrite == \E s \in Slots : WebhookWrite(s)

StepVerifyRead == \E s \in Slots : VerifyRead(s)

StepVerifyWrite == \E s \in Slots : VerifyWrite(s)

StepBindWrite == \E s \in Slots : BindWrite(s)

Next ==
    \/ StartWebhook
    \/ StartVerify
    \/ StartBind
    \/ StepWebhookRead
    \/ StepWebhookWrite
    \/ StepVerifyRead
    \/ StepVerifyWrite
    \/ StepBindWrite
    \/ Tick

Spec == Init /\ [][Next]_vars

-----------------------------------------------------------------------------
(* Claims checked under Spec *)

SameKey(a, b) == a.pid = b.pid /\ a.otid = b.otid

\* C1: in every reachable state the subscription table holds at most one row
\* for each (project_id, original_transaction_id) pair.
C1_OneRowPerKey ==
    \A i \in RowIds : \A j \in RowIds : SameKey(subs[i], subs[j]) => i = j

\* C2: once a row's app_account_token is a non-empty value T, no step of any
\* handler (webhook, verify, bind_account) changes it to a different value.
C2_TokenImmutable ==
    [][\A i \in RowIds : subs[i].token # "" => subs'[i].token = subs[i].token]_vars

BothAnswered == \A s \in Slots : req[s].pc = "done"

TwoVerifiesOfOneKey ==
    /\ started = 2
    /\ BothAnswered
    /\ \A s \in Slots : req[s].in.kind = "verify" /\ req[s].in.apiStatus = 200
    /\ req[1].in.otid = req[2].in.otid
    /\ req[1].in.bundle = req[2].in.bundle

\* C3: two CreateOrUpdateSubscription calls for one key, no row beforehand:
\* one performs the INSERT, the other an UPDATE, neither fails, and the row
\* carries the field values of the call applied last (the updating one).
C3_OneInsertOneUpdate ==
    TwoVerifiesOfOneKey =>
        /\ \A s \in Slots : req[s].resp = 200
        /\ {req[s].op : s \in Slots} = {"insert", "update"}
        /\ Len(subs) = 1
        /\ \A s \in Slots : req[s].op = "update" =>
              /\ subs[1].tid = req[s].in.tid
              /\ subs[1].expires = UnixFromMS(req[s].in.expiresMS)

SubscribedAndVerify(w, v) ==
    /\ started = 2
    /\ BothAnswered
    /\ req[w].in.kind = "webhook" /\ req[w].in.ntype = "SUBSCRIBED"
    /\ req[w].in.token = ""
    /\ req[v].in.kind = "verify" /\ req[v].in.token = ""
    /\ req[v].in.otid = req[w].in.otid /\ req[v].in.bundle = req[w].in.bundle
    /\ UnixFromMS(req[v].in.expiresMS) > MaxNow + 1

\* C4: SUBSCRIBED with an empty appAccountToken and a client verify carrying
\* user_id U for the same originalTransactionId: every interleaving ends with
\* exactly one row, app_account_token = U, status active, both answered 2xx.
C4_RaceConverges ==
    \A w \in Slots : \A v \in Slots :
        SubscribedAndVerify(w, v) =>
            /\ req[w].resp = 200 /\ req[v].resp = 200
            /\ Len(subs) = 1
            /\ subs[1].token = req[v].in.userID
            /\ subs[1].status = "active"

\* a webhook handler about to save over a row that a client verify wrote
\* (latest_receipt set) and whose token differs from the event's token
WebhookSavesMismatch(s) ==
    /\ req[s].pc = "write" /\ req[s].in.kind = "webhook" /\ req[s].found # 0
    /\ req[s].snap.receipt # ""
    /\ req[s].snap.token # "" /\ req[s].in.token # ""
    /\ req[s].snap.token # req[s].in.token
    /\ req'[s].pc = "done" /\ req'[s].resp = 200

\* C5: a verify created the row with token T, a webhook event for the same
\* original_transaction_id carries another non-empty token: the stored
\* token remains T and a mismatch is recorded for the event.
C5_MismatchRecorded ==
    [][\A s \in Slots : WebhookSavesMismatch(s) =>
          /\ subs'[req[s].found].token = req[s].snap.token
          /\ \E e \in mismatchLog' :
                /\ e.otid = req[s].in.otid
                /\ e.existing = req[s].snap.token
                /\ e.new = req[s].in.token]_vars

-----------------------------------------------------------------------------
(* Specification SpecIngest: Apple webhook deliveries handled one after    *)
(* the other, over every kind of envelope                                   *)

IngestInputs ==
    { [NoInput EXCEPT !.kind = "webhook", !.ntype = nt, !.uuid = u, !.signedDate = d,
                      !.sig = sg, !.envelope = ev, !.bundle = b, !.txOK = ok,
                      !.tid = "t1", !.otid = "o1", !.token = "U1", !.deviceID = dv,
                      !.expiresMS = 9000, !.purchaseMS = 0, !.product = "monthly",
                      !.autoRenew = 1, !.env = "Production"] :
        nt \in {"", "SUBSCRIBED", "DID_REFUND", "TEST"}, u \in {"", "n1"},
        d \in {1, 2}, sg \in {"absent", "valid", "invalid"},
        ev \in {"ok", "malformed", "empty"}, b \in {"bA", "bX"},
        ok \in BOOLEAN, dv \in {"", "D1"} }

IngestStart == \E in \in IngestInputs : WebhookStart(1, in)

IngestRead == WebhookRead(1)

IngestWrite == WebhookWrite(1)

NextIngest ==
    \/ IngestStart
    \/ IngestRead
    \/ IngestWrite

SpecIngest == Init /\ [][NextIngest]_vars

\* slot s takes a new webhook request in this step
Receives(s) ==
    /\ Free(s)
    /\ started' = started + 1
    /\ req'[s] # req[s]
    /\ req'[s].in.kind = "webhook"

\* the request slot s takes is one the Replay Guard has recorded before
ReceivesReplay(s) ==
    /\ Receives(s)
    /\ ReachesReplayCheck(req'[s].in)
    /\ req'[s].in.uuid # ""
    /\ generateNotificationID(req'[s].in.uuid, req'[s].in.signedDate)
          \in DOMAIN processedNotifications

ReceivesHeartbeat(s) ==
    /\ Receives(s)
    /\ req'[s].in.envelope = "ok" /\ req'[s].in.sig # "invalid"
    /\ req'[s].in.ntype = ""

\* the request reaches handleNotificationByType with a type outside the table
ReceivesUnknownType(s) ==
    /\ Receives(s)
    /\ ReachesReplayCheck(req'[s].in)
    /\ ~ReceivesReplay(s)
    /\ GetProjectByBundleID(req'[s].in.bundle) # NoProject
    /\ req'[s].in.txOK
    /\ req'[s].in.ntype \notin KnownTypes

AnswersAtOnce(s, status) ==
    /\ req'[s].pc = "done"
    /\ req'[s].resp = status
    /\ UNCHANGED <<subs, outbound>>

\* C7: a notification delivered again (same notificationUUID and signedDate,
\* recorded by the Replay Guard) is answered 400, writes no subscription row
\* and dispatches no outbound webhook.
C7_ReplayRejected ==
    [][\A s \in Slots : ReceivesReplay(s) => AnswersAtOnce(s, 400)]_vars

\* a request with nothing wrong but its being a second delivery was answered 400
\* after the first delivery had created the row
C7_Witness ==
    \E s \in Slots :
        /\ req[s].pc = "done" /\ req[s].resp = 400
        /\ req[s].in.kind = "webhook" /\ req[s].in.envelope = "ok"
        /\ req[s].in.sig # "invalid" /\ req[s].in.ntype \in KnownTypes
        /\ req[s].in.bundle = "bA" /\ req[s].in.txOK
        /\ Len(subs) = 1

\* C8 as stated: unknown notificationType, heartbeat and replay are all answered 200.
C8_DropsAnswer200 ==
    [][\A s \in Slots :
          (ReceivesUnknownType(s) \/ ReceivesHeartbeat(s) \/ ReceivesReplay(s))
              => req'[s].resp = 200]_vars

\* C8 amended: an unknown notificationType and a heartbeat are answered 200
\* without a write; a replayed notification is answered 400.
C8_DropsAnswered ==
    [][\A s \in Slots :
          /\ ReceivesUnknownType(s) => AnswersAtOnce(s, 200)
          /\ ReceivesHeartbeat(s) => AnswersAtOnce(s, 200)
          /\ ReceivesReplay(s) => AnswersAtOnce(s, 400)]_vars

\* an unknown type was answered 200 and the Replay Guard holds its id
C8_Witness ==
    \E s \in Slots :
        /\ req[s].pc = "done" /\ req[s].resp = 200
        /\ req[s].in.ntype = "TEST" /\ req[s].in.uuid # ""
        /\ generateNotificationID(req[s].in.uuid, req[s].in.signedDate)
              \in DOMAIN processedNotifications

-----------------------------------------------------------------------------
(* Specification SpecReplay: the Replay Guard, its sweeper and the clock   *)

CallReplay == \E u \in {"", "n1"}, d \in {1, 2} : ReplayCall(u, d)

\* time passes, one tick interval at a time; a due tick is handled before the next
Advance ==
    /\ now < MaxReplayHours * 3600
    /\ (now > 0 /\ now % cleanupInterval = 0) => rp.tick = now
    /\ now' = now + cleanupInterval
    /\ UNCHANGED <<projects, subs, rowLock, req, processedNotifications,
                   outbound, mismatchLog, wn, started, rp, sv>>

NextReplay ==
    \/ CallReplay
    \/ SweeperTick
    \/ Advance

SpecReplay == Init /\ [][NextReplay]_vars

\* C6 as stated: once a notificationUUID was accepted, every IsReplay call with
\* that UUID less than 24 h later returns true, whatever its signedDate.
C6_SameUUIDRejected == rp.call.uuidSeen => rp.call.result

\* C6 amended: once a notification was accepted, every IsReplay call with the
\* same notificationUUID and the same signedDate less than 24 h later returns
\* true, whether or not the sweeper has run in between.
C6_SameNotificationRejected == rp.call.pairSeen => rp.call.result

\* a second delivery was rejected after the sweeper had run in between
C6_Witness == rp.call.pairSeen /\ rp.call.result /\ rp.call.swept

-----------------------------------------------------------------------------
(* Specification SpecNotify: one outbound notification and the tenant's    *)
(* answers                                                                  *)

TenantAnswers == {0, 199, 200, 204, 299, 300, 404, 500}

NotifiedSubscriptions ==
    { [NoSub EXCEPT !.pid = "pA", !.token = "U1", !.platform = "ios",
                    !.status = st, !.product = "monthly", !.tid = "t1",
                    !.otid = "o1", !.expires = 9] : st \in {"active", "refunded"} }

Notify ==
    \E u \in {NoURL, CallbackA}, k \in {"", "s1"}, sub \in NotifiedSubscriptions :
        NotifyAppBackend(u, k, sub)

Send == \E st \in TenantAnswers : SendAttempt(st)

NextNotify ==
    \/ Notify
    \/ Send

\* every request of the notifier carries a 10 s deadline, so the loop goes on
SpecNotify == Init /\ [][NextNotify]_vars /\ WF_vars(Send)

Is2xx(status) == 200 <= status /\ status <= 299

Statuses(sent) == [i \in 1..Len(sent) |-> sent[i].status]

Count(seq, x) == Cardinality({i \in 1..Len(seq) : seq[i] = x})

C9_Discipline ==
    /\ Len(wn.sent) <= 3
    /\ \A i \in 1..Len(wn.sent) :
          Is2xx(wn.sent[i].status) => (i = Len(wn.sent) /\ wn.state = "done")
    /\ wn.state = "done" =>
          \/ /\ Is2xx(wn.sent[Len(wn.sent)].status)
             /\ Count(wn.log, "gave_up") = 0
          \/ /\ Len(wn.sent) = 3
             /\ \A i \in 1..3 : ~Is2xx(wn.sent[i].status)
             /\ Count(wn.log, "gave_up") = 1
             /\ wn.log[Len(wn.log)] = "gave_up"
    /\ wn.state # "done" => Count(wn.log, "gave_up") = 0

\* C9: delivery stops at the first attempt answered 2xx; when every attempt
\* fails exactly 3 attempts are made, a terminal failure is logged, no 4th
\* attempt occurs; and the procedure always terminates.
C9_RetryTerminates ==
    /\ []C9_Discipline
    /\ (wn.state = "sending") ~> (wn.state = "done")

\* three failed attempts, then the terminal log line
C9_Witness ==
    /\ wn.state = "done"
    /\ Len(wn.sent) = 3
    /\ Count(wn.log, "gave_up") = 1

\* C10: with a tenant that always fails the delays 1 s, 5 s and 30 s are all
\* applied (schedule points t, t+1, t+6, t+36) and the terminal failure is
\* reported only after the 30 s delay.
C10_ThirtySecondDelayApplied ==
    Count(wn.log, "gave_up") > 0 =>
        /\ wn.slept = <<1, 5, 30>>
        /\ wn.clock = 36

SignatureHeaders(attempt) ==
    {h \in attempt.headers : h[1] = "X-UnionHub-Signature"}

\* C11: on every outbound attempt the X-UnionHub-Signature header is present
\* exactly when the secret is non-empty, and its value is
\* hex(HMAC-SHA256(secret, B)) for the body B sent in that same attempt.
C11_SignatureOverSentBody ==
    \A i \in 1..Len(wn.sent) :
        /\ (SignatureHeaders(wn.sent[i]) # {}) <=> (wn.secret # "")
        /\ \A h \in SignatureHeaders(wn.sent[i]) :
              h[2] = HexHmacSha256(wn.secret, wn.sent[i].body)

\* a signed attempt followed by a signed retry, both carrying a body
C11_Witness ==
    /\ wn.secret # ""
    /\ Len(wn.sent) >= 2
    /\ \A i \in 1..Len(wn.sent) :
          wn.sent[i].body # <<>> /\ SignatureHeaders(wn.sent[i]) # {}

-----------------------------------------------------------------------------
(* Specification SpecDeliver: the webhook and verify handlers, the notifier *)
(* goroutine they start, and the tenant's answers                           *)

DeliverWebhookInputs ==
    { [NoInput EXCEPT !.kind = "webhook", !.ntype = nt, !.uuid = "", !.bundle = "bA",
                      !.tid = "t1", !.otid = "o1", !.expiresMS = 9000,
                      !.product = "monthly", !.autoRenew = 1, !.env = "Production"] :
        nt \in {"SUBSCRIBED", "DID_REFUND"} }

DeliverVerifyInputs ==
    { [NoInput EXCEPT !.kind = "verify", !.bundle = "bA", !.tid = "t1", !.otid = "o1",
                      !.userID = "U1", !.expiresMS = e, !.product = "monthly",
                      !.env = "Production"] : e \in ExpiresChoices }

DeliverAnswers == {0, 200, 500}

DeliverStartWebhook == \E in \in DeliverWebhookInputs : WebhookStart(1, in)

DeliverStartVerify == \E in \in DeliverVerifyInputs : VerifyStart(1, in)

DeliverWebhookRead == WebhookRead(1)

DeliverWebhookWrite == WebhookWrite(1)

DeliverVerifyRead == VerifyRead(1)

DeliverVerifyWrite == VerifyWrite(1)

\* the goroutine "go func() { ... NotifyAppBackend(...) }()" gets scheduled
Deliver == \E o \in outbound : NotifyAppBackend(o.url, o.secret, o.sub)

DeliverSend == \E st \in DeliverAnswers : SendAttempt(st)

NextDeliver ==
    \/ DeliverStartWebhook
    \/ DeliverStartVerify
    \/ DeliverWebhookRead
    \/ DeliverWebhookWrite
    \/ DeliverVerifyRead
    \/ DeliverVerifyWrite
    \/ Deliver
    \/ DeliverSend
    \/ Tick

SpecDeliver == Init /\ [][NextDeliver]_vars

Answers == [s \in Slots |-> [pc |-> req[s].pc, resp |-> req[s].resp]]

\* C12: the handler answers in the step that starts the notifier goroutine,
\* before any delivery attempt, and no step of the delivery (success, failure
\* on every attempt, no answer) changes an HTTP response or a stored row.
C12_DeliveryChangesNothing ==
    [][/\ outbound' # outbound =>
             /\ wn' = wn
             /\ \E s \in Slots : /\ req[s].pc = "write"
                                 /\ req'[s].pc = "done"
                                 /\ req'[s].resp = 200
       /\ wn' # wn => (subs' = subs /\ req' = req /\ outbound' = outbound)]_vars

\* a webhook answered 200, its row stored, and its delivery failed three times
C12_Witness ==
    /\ req[1].pc = "done" /\ req[1].resp = 200
    /\ Len(subs) = 1
    /\ wn.state = "done"
    /\ Len(wn.sent) = 3
    /\ \A i \in 1..3 : wn.sent[i].status \in {0, 500}

-----------------------------------------------------------------------------
(* Specification SpecStatus: every ASSN notification type and the client   *)
(* verify, one request after the other, while the clock advances            *)

StatusWebhookInputs ==
    { [NoInput EXCEPT !.kind = "webhook", !.ntype = nt, !.uuid = "", !.bundle = "bA",
                      !.tid = "t1", !.otid = "o1", !.expiresMS = e,
                      !.product = "monthly", !.autoRenew = a, !.env = "Production"] :
        nt \in KnownTypes, e \in ExpiresChoices, a \in {0, 1} }

StatusVerifyInputs ==
    { [NoInput EXCEPT !.kind = "verify", !.bundle = "bA", !.tid = "t1", !.otid = "o1",
                      !.userID = "U1", !.expiresMS = e, !.product = "monthly",
                      !.env = "Production"] : e \in ExpiresChoices }

StatusStartWebhook == \E in \in StatusWebhookInputs : WebhookStart(1, in)

StatusStartVerify == \E in \in StatusVerifyInputs : VerifyStart(1, in)

StatusWebhookRead == WebhookRead(1)

StatusWebhookWrite == WebhookWrite(1)

StatusVerifyRead == VerifyRead(1)

StatusVerifyWrite == VerifyWrite(1)

NextStatus ==
    \/ StatusStartWebhook
    \/ StatusStartVerify
    \/ StatusWebhookRead
    \/ StatusWebhookWrite
    \/ StatusVerifyRead
    \/ StatusVerifyWrite
    \/ Tick

SpecStatus == Init /\ [][NextStatus]_vars

\* the status table of the documentation
TableStatus(ntype) ==
    CASE ntype \in {"INITIAL_BUY", "SUBSCRIBED", "DID_RENEW", "RENEWAL_EXTENDED"} -> "active"
      [] ntype = "DID_FAIL_TO_RENEW" -> "failed"
      [] ntype = "DID_CANCEL" -> "cancelled"
      [] ntype \in {"DID_REFUND", "REVOKE"} -> "refunded"
      [] ntype \in {"EXPIRED", "GRACE_PERIOD_EXPIRED"} -> "expired"

\* a webhook handler saves over an existing row and the request is answered 200
WebhookUpdates(s) ==
    /\ req[s].pc = "write" /\ req[s].in.kind = "webhook" /\ req[s].found # 0
    /\ req'[s].pc = "done" /\ req'[s].resp = 200

\* C13: for every ASSN notificationType and an existing row, the stored status
\* and auto_renew after processing match the status table: active with the
\* event's auto_renew for the buy and renew types, failed / cancelled /
\* refunded / expired with auto_renew false for the others.
C13_StatusTable ==
    [][\A s \in Slots : WebhookUpdates(s) =>
          /\ subs'[req[s].found].status = TableStatus(req[s].in.ntype)
          /\ subs'[req[s].found].autoRenew =
                IF TableStatus(req[s].in.ntype) = "active"
                THEN req[s].in.autoRenew = 1
                ELSE FALSE]_vars

\* a DID_CANCEL was applied to a row that exists
C13_Witness ==
    /\ req[1].pc = "done" /\ req[1].resp = 200 /\ req[1].op = "update"
    /\ req[1].in.ntype = "DID_CANCEL"
    /\ subs[1].status = "cancelled"

\* C14: every write that stores status = active on a row stores an
\* expires_date later than the time of the write.
C14_ActiveNotExpiredAtWrite ==
    [][\A i \in 1..Len(subs') :
          /\ (i > Len(subs) \/ subs'[i] # subs[i])
          /\ subs'[i].status = "active"
          => subs'[i].expires > now]_vars

-----------------------------------------------------------------------------
(* Specification SpecVerify: client verifications, one after the other,     *)
(* over the answers of the App Store Server API and of verifyReceipt        *)

ModernVerifyInputs ==
    { [NoInput EXCEPT !.kind = "verify", !.bundle = "bA", !.tid = "t1", !.otid = o,
                      !.userID = "U1", !.expiresMS = 9000, !.product = "monthly",
                      !.env = "Production", !.apiStatus = a, !.jws = j] :
        o \in {"", "o1"}, a \in {200, 404, 500}, j \in {"ok", "parts", "base64", "json"} }

LegacyVerifyInputs ==
    { [NoInput EXCEPT !.kind = "verify", !.legacy = TRUE, !.bundle = "bA", !.tid = "t1",
                      !.otid = o, !.userID = "U1", !.expiresMS = 9000,
                      !.product = "monthly", !.env = "Production",
                      !.appleStatus = a, !.sandboxStatus = b, !.sandboxEnv = e] :
        o \in {"", "o1"}, a \in {0, 21002, 21007}, b \in {0, 21003},
        e \in {"Sandbox", "sandbox"} }

VerifyModern == \E in \in ModernVerifyInputs : VerifyStart(1, in)

VerifyLegacy == \E in \in LegacyVerifyInputs : VerifyStart(1, in)

VerifySelect == VerifyRead(1)

VerifyCommit == VerifyWrite(1)

NextVerify ==
    \/ VerifyModern
    \/ VerifyLegacy
    \/ VerifySelect
    \/ VerifyCommit
    \/ Tick

SpecVerify == Init /\ [][NextVerify]_vars

\* C15: every persisted subscription row has a non-empty
\* original_transaction_id, whichever path created it.
C15_OriginalTransactionIdSet ==
    \A i \in RowIds : subs[i].otid # ""

\* the upstream-store errors of the documentation
StoreError(in) ==
    IF in.legacy
    THEN \/ in.appleStatus \notin {0, 21007}
         \/ in.appleStatus = 21007 /\ in.sandboxStatus \notin {0, 21007}
    ELSE \/ in.apiStatus < 200 \/ in.apiStatus > 299
         \/ in.jws # "ok"

\* slot s takes a verify request whose store answer is an upstream-store error
VerifyMeetsStoreError(s) ==
    /\ req[s].pc \in {"idle", "done"}
    /\ started' = started + 1
    /\ req'[s].in.kind = "verify"
    /\ StoreError(req'[s].in)

\* C16: a client verification that meets an upstream-store error is answered
\* 4xx, creates or modifies no subscription row and dispatches no outbound
\* tenant webhook.
C16_StoreErrorLeavesState ==
    [][\A s \in Slots : VerifyMeetsStoreError(s) =>
          /\ req'[s].pc = "done"
          /\ req'[s].resp >= 400 /\ req'[s].resp <= 499
          /\ subs' = subs
          /\ outbound' = outbound]_vars

\* a row exists, then a legacy verification met status 21002
C16_Witness ==
    /\ Len(subs) = 1
    /\ req[1].pc = "done" /\ req[1].resp = 400
    /\ req[1].in.legacy /\ req[1].in.appleStatus = 21002

-----------------------------------------------------------------------------
(* Specification SpecAuth: requests to the authenticated route              *)
(* POST /api/verify/apple                                                   *)

AuthInputs ==
    { [NoInput EXCEPT !.kind = "verify_apple", !.hdrPid = hp, !.hdrKey = hk,
                      !.qPid = qp, !.qKey = qk, !.bodyPid = bp, !.token = k,
                      !.tid = "t1", !.otid = "o1", !.expiresMS = 9000,
                      !.product = "monthly", !.env = "Production"] :
        hp \in {"", "pA", "pC"}, hk \in {"", "kA", "kB", "kC"}, qp \in {"", "pA"},
        qk \in {"", "kA"}, bp \in {"", "pB"}, k \in {"", "U1"} }

Authenticate == \E in \in AuthInputs : AuthStart(1, in)

HandleVerifyApple == VerifyAppleHandler(1)

NextAuth ==
    \/ Authenticate
    \/ HandleVerifyApple
    \/ Tick

SpecAuth == Init /\ [][NextAuth]_vars

\* the credentials the documentation requires of an authenticated request
Credentialed(in) ==
    /\ SuppliedProjectID(in) # ""
    /\ SuppliedAPIKey(in) # ""
    /\ \E p \in projects : /\ p.pid = SuppliedProjectID(in)
                           /\ p.active
                           /\ p.apiKey = SuppliedAPIKey(in)

\* slot s takes a request to the guarded route
EntersMiddleware(s) ==
    /\ req[s].pc \in {"idle", "done"}
    /\ started' = started + 1
    /\ req'[s].in.kind = "verify_apple"

\* C17: a request to a route guarded by ProjectAuthMiddleware reaches the
\* handler only if a project id and an API key were supplied (header or query),
\* the project exists, is active and its key equals the supplied one; otherwise
\* the answer is 401 and the handler does not run; on success the project_id
\* bound to the context is the authenticated project id.
C17_AuthGate ==
    [][\A s \in Slots : EntersMiddleware(s) =>
          IF Credentialed(req'[s].in)
          THEN /\ req'[s].pc = "handler"
               /\ req'[s].project.pid = SuppliedProjectID(req'[s].in)
          ELSE /\ req'[s].pc = "done"
               /\ req'[s].resp = 401
               /\ subs' = subs]_vars

\* a request with the id of project pA and the key of project pB was refused
C17_Witness ==
    /\ req[1].pc = "done" /\ req[1].resp = 401
    /\ req[1].in.kind = "verify_apple"
    /\ req[1].in.hdrPid = "pA" /\ req[1].in.hdrKey = "kB"

\* C18: a request authenticated for project A never creates or modifies a
\* subscription row whose project_id is another project; POST /api/verify/apple
\* acts only on the project whose credentials authenticated the request.
C18_ProjectIsolation ==
    [][\A s \in Slots :
          (req[s].pc = "handler" /\ req[s].in.kind = "verify_apple") =>
              \A i \in 1..Len(subs') :
                  (i > Len(subs) \/ subs'[i] # subs[i]) =>
                      subs'[i].pid = req[s].project.pid]_vars

-----------------------------------------------------------------------------
(* Specification SpecAdmin: a project is switched off and on while webhook, *)
(* verify and bind_account requests arrive one after the other              *)

AdminWebhookInputs ==
    { [NoInput EXCEPT !.kind = "webhook", !.ntype = nt, !.uuid = "", !.bundle = "bA",
                      !.tid = "t1", !.otid = "o1", !.token = k, !.expiresMS = 9000,
                      !.product = "monthly", !.autoRenew = 1, !.env = "Production"] :
        nt \in {"SUBSCRIBED", "DID_REFUND"}, k \in {"", "U1"} }

AdminVerifyInputs ==
    { [NoInput EXCEPT !.kind = "verify", !.bundle = "bA", !.tid = "t1", !.otid = "o1",
                      !.userID = u, !.expiresMS = 9000, !.product = "monthly",
                      !.env = "Production"] : u \in Tokens }

AdminStartWebhook == \E in \in AdminWebhookInputs : WebhookStart(1, in)

AdminStartVerify == \E in \in AdminVerifyInputs : VerifyStart(1, in)

AdminStartBind == \E in \in StoreBindInputs : BindStart(1, in)

AdminWebhookRead == WebhookRead(1)

AdminWebhookWrite == WebhookWrite(1)

AdminVerifyRead == VerifyRead(1)

AdminVerifyWrite == VerifyWrite(1)

AdminBindWrite == BindWrite(1)

SetActive == \E isActive \in BOOLEAN : UpdateProject("pA", isActive)

NextAdmin ==
    \/ AdminStartWebhook
    \/ AdminStartVerify
    \/ AdminStartBind
    \/ AdminWebhookRead
    \/ AdminWebhookWrite
    \/ AdminVerifyRead
    \/ AdminVerifyWrite
    \/ AdminBindWrite
    \/ SetActive

SpecAdmin == Init /\ [][NextAdmin]_vars

IsActiveProject(projectID) == \E p \in projects : p.pid = projectID /\ p.active

\* C19: while a project has is_active = false no request (bind_account
\* included) modifies a subscription row of that project.
C19_InactiveProjectUntouched ==
    [][\A i \in RowIds :
          (~IsActiveProject(subs[i].pid) /\ ~IsActiveProject(subs[i].pid)') =>
              subs'[i] = subs[i]]_vars

-----------------------------------------------------------------------------
(* Specification SpecRead: webhooks write rows, the clock advances and      *)
(* GET /api/subscription/status reads                                       *)

ReadWebhookInputs ==
    { [NoInput EXCEPT !.kind = "webhook", !.ntype = nt, !.uuid = "", !.bundle = "bA",
                      !.tid = "t1", !.otid = "o1", !.token = "U1", !.expiresMS = e,
                      !.product = "monthly", !.autoRenew = 1, !.env = "Production"] :
        nt \in {"SUBSCRIBED", "DID_REFUND"}, e \in ExpiresChoices }

StatusInputs ==
    { [NoInput EXCEPT !.kind = "status", !.userID = u, !.bundle = b] :
        u \in {""} \cup Tokens, b \in {"", "bA", "bB", "bX"} }

ReadStartWebhook == \E in \in ReadWebhookInputs : WebhookStart(1, in)

ReadWebhookRead == WebhookRead(1)

ReadWebhookWrite == WebhookWrite(1)

GetStatus == \E in \in StatusInputs : StatusStart(1, in)

AnswerStatus == StatusAnswer(1)

NextRead ==
    \/ ReadStartWebhook
    \/ ReadWebhookRead
    \/ ReadWebhookWrite
    \/ GetStatus
    \/ AnswerStatus
    \/ Tick

SpecRead == Init /\ [][NextRead]_vars

\* the project has a row with that token, status active and expires_date > now
HasActiveRow(projectID, token) ==
    \E i \in RowIds : /\ subs[i].pid = projectID
                       /\ subs[i].token = token
                       /\ subs[i].status = "active"
                       /\ subs[i].expires > now

\* slot s takes a status request and queries the table in this step
StatusQueried(s) ==
    /\ req[s].pc \in {"idle", "done"}
    /\ started' = started + 1
    /\ req'[s].in.kind = "status"
    /\ req'[s].project # NoProject

\* slot s answers a status request for a resolved project in this step
StatusAnswered(s) ==
    /\ req[s].pc = "answer" \/ StatusQueried(s)
    /\ req'[s].in.kind = "status"
    /\ req'[s].pc = "done"
    /\ req'[s].project # NoProject

\* C20 as stated: the answer has is_active = true exactly when the resolved
\* project has a row with that token, status active and expires_date later
\* than now; otherwise it is 200 with is_active = false and status inactive.
C20_StatusExact ==
    [][\A s \in Slots : StatusAnswered(s) =>
          /\ req'[s].resp = 200
          /\ req'[s].body.isActive <=>
                HasActiveRow(req'[s].project.pid, req'[s].in.userID)
          /\ ~req'[s].body.isActive =>
                req'[s].body.status = "inactive"]_vars

\* C20 amended: the query finds a row exactly when the project has an active,
\* unexpired row for the token; with no row the answer is 200, is_active false,
\* status inactive; with a row the answer is 200 with the row's status, and
\* is_active is true exactly when the row is still unexpired at the moment of
\* the answer.
C20_StatusOfFoundRow ==
    [][\A s \in Slots :
          /\ StatusQueried(s) =>
                IF HasActiveRow(req'[s].project.pid, req'[s].in.userID)
                THEN req'[s].pc = "answer"
                ELSE /\ req'[s].pc = "done" /\ req'[s].resp = 200
                     /\ req'[s].body = [isActive |-> FALSE, status |-> "inactive"]
          /\ (req[s].pc = "answer" /\ req'[s].pc = "done") =>
                /\ req'[s].resp = 200
                /\ req'[s].body.status = subs[req[s].found].status
                /\ req'[s].body.isActive <=> subs[req[s].found].expires > now]_vars

\* the row expired between the query and the answer: is_active false, status active
C20_Witness ==
    /\ req[1].pc = "done" /\ req[1].resp = 200
    /\ req[1].in.kind = "status"
    /\ req[1].body = [isActive |-> FALSE, status |-> "active"]

\* slot s commits the row of a legacy verification whose sandbox call succeeded
SandboxReceiptCommitted(s) ==
    /\ req[s].pc = "write" /\ req[s].in.kind = "verify" /\ req[s].in.legacy
    /\ req[s].in.appleStatus = 21007 /\ req[s].in.sandboxStatus = 0
    /\ req'[s].pc = "done" /\ req'[s].resp = 200

\* C21: in legacy receipt verification production is called first, sandbox
\* only after production answered 21007 and at most once, and when the sandbox
\* call succeeds the persisted row has environment = sandbox.
C21_SandboxRetry ==
    [][\A s \in Slots :
          /\ (req'[s].in.kind = "verify" /\ req'[s].in.legacy /\ req'[s].calls # <<>>) =>
                /\ req'[s].calls[1] = "production"
                /\ Len(req'[s].calls) <= 2
                /\ Len(req'[s].calls) = 2 =>
                      (req'[s].calls[2] = "sandbox" /\ req'[s].in.appleStatus = 21007)
          /\ SandboxReceiptCommitted(s) =>
                \E i \in 1..Len(subs') :
                    /\ subs'[i].pid = req[s].sub.pid /\ subs'[i].otid = req[s].sub.otid
                    /\ subs'[i].env = "sandbox"]_vars

-----------------------------------------------------------------------------
(* Specification SpecGoogle: Google Play RTDN deliveries for a subscription *)
(* whose android row is in the table                                        *)

GoogleStatuses == {"active", "paused", "expired"}

\* an android row: the purchase token is kept in latest_receipt
GoogleRow(status) ==
    [NoSub EXCEPT !.pid = "pA", !.token = "U1", !.platform = "android",
                  !.plan = "monthly", !.status = status, !.product = "sku1",
                  !.tid = "g1", !.otid = "g1", !.expires = 9, !.receipt = "g1"]

InitGoogle ==
    /\ projects = ProjectRows
    /\ \E st \in GoogleStatuses : subs = <<GoogleRow(st)>>
    /\ rowLock = <<0>>
    /\ req = [s \in Slots |-> IdleReq]
    /\ processedNotifications = [k \in {} |-> 0]
    /\ now = 0
    /\ outbound = {}
    /\ mismatchLog = {}
    /\ wn = WnIdle
    /\ started = 0
    /\ rp = RpInit
    /\ sv = SvInit

GoogleInputs ==
    { [NoInput EXCEPT !.kind = "google", !.gtype = n, !.purchaseToken = t,
                      !.product = p] :
        n \in 1..13, t \in {"", "g1"}, p \in {"", "sku1"} }

GoogleNotify == \E in \in GoogleInputs : GooglePlayWebhookHandler(1, in)

NextGoogle ==
    \/ GoogleNotify
    \/ Tick

SpecGoogle == InitGoogle /\ [][NextGoogle]_vars

\* the status table of the documentation for RTDN codes
GoogleTable(n, status) ==
    CASE n \in {1, 2, 4, 7} -> "active"
      [] n = 3 -> "cancelled"
      [] n = 5 -> "on_hold"
      [] n = 6 -> "grace_period"
      [] n = 9 -> "deferred"
      [] n = 10 -> "paused"
      [] n = 12 -> "revoked"
      [] n = 13 -> "expired"
      [] n \in {8, 11} -> status

\* slot s answers an RTDN whose purchase token is the one of row i
GoogleProcessed(s, i) ==
    /\ req[s].pc \in {"idle", "done"}
    /\ started' = started + 1
    /\ req'[s].in.kind = "google"
    /\ req'[s].in.product # ""
    /\ subs[i].platform = "android"
    /\ subs[i].receipt = req'[s].in.purchaseToken

-----------------------------------------------------------------------------
(* C23: CreateOrUpdateSubscription applied again with the same input *)

\* the rows of the key (project_id, original_transaction_id) of sub in table t
KeyRows(t, sub) ==
    {i \in 1..Len(t) : t[i].pid = sub.pid /\ t[i].otid = sub.otid}

\* row is what an application of CreateOrUpdateSubscription(sub) leaves
AppliedTo(row, sub) == MergedSubscription(row, sub) = row

\* slot s runs the write of CreateOrUpdateSubscription
Applies(s) ==
    /\ req[s].pc = "write" /\ req[s].in.kind = "verify"
    /\ req'[s].pc = "done"

-----------------------------------------------------------------------------
(* C24: the store delivers again a notification that was answered with an  *)
(* error                                                                    *)

\* the answer slot s holds is a 5xx of the status machine, or the 400 of the
\* project lookup
AnsweredWithRetryableError(s) ==
    /\ req[s].pc = "done"
    /\ req[s].in.kind = "webhook"
    /\ ReachesReplayCheck(req[s].in)
    /\ req[s].in.uuid # ""
    /\ \/ req[s].resp = 500
       \/ req[s].resp = 400 /\ GetProjectByBundleID(req[s].in.bundle) = NoProject

\* slot s takes the notification it has answered once more
Redelivered(s) ==
    /\ AnsweredWithRetryableError(s)
    /\ Receives(s)
    /\ req'[s].in.uuid = req[s].in.uuid
    /\ req'[s].in.signedDate = req[s].in.signedDate
    /\ req'[s].in.bundle = req[s].in.bundle
    /\ req'[s].in.ntype = req[s].in.ntype
    /\ ReachesReplayCheck(req'[s].in)

\* C24: a notification delivered again (same notificationUUID and signedDate)
\* after its earlier delivery was answered 5xx by the status machine, or 400
\* by the project lookup, is not rejected as a duplicate; after a 5xx it is
\* processed by the status machine.
C24_RedeliveryProcessed ==
    [][\A s \in Slots :
          Redelivered(s) =>
              /\ ~ReceivesReplay(s)
              /\ (req[s].resp = 500 /\ req'[s].in.txOK) => req'[s].pc = "read"]_vars

-----------------------------------------------------------------------------
(* C25: a notification about a row the table does not hold *)

NonCreateTypes ==
    {"DID_RENEW", "RENEWAL_EXTENDED", "DID_FAIL_TO_RENEW", "DID_CANCEL",
     "DID_REFUND", "REVOKE", "EXPIRED", "GRACE_PERIOD_EXPIRED"}

\* the handler of slot s looks for the row of a non-create notification and
\* the table has none for (project_id, originalTransactionId)
LooksUpMissingRow(s) ==
    /\ req[s].pc = "read"
    /\ req[s].in.kind = "webhook"
    /\ req[s].in.ntype \in NonCreateTypes
    /\ \A i \in RowIds : ~(subs[i].pid = req[s].project.pid
                            /\ subs[i].otid = req[s].in.otid)
    /\ req'[s] # req[s]

\* C25: an Apple notification of a non-create type whose
\* (project_id, originalTransactionId) has no row is reported as an error:
\* the answer is not 2xx, no row is created and no outbound webhook is
\* dispatched.
C25_MissingRowReported ==
    [][\A s \in Slots :
          LooksUpMissingRow(s) =>
              /\ req'[s].pc = "done"
              /\ req'[s].resp \notin 200..299
              /\ req'[s].resp # 0
              /\ UNCHANGED <<subs, outbound>>]_vars

\* a non-create notification was answered 500 with the table empty
C25_Witness ==
    \E s \in Slots :
        /\ req[s].pc = "done" /\ req[s].in.kind = "webhook"
        /\ req[s].in.ntype \in NonCreateTypes
        /\ req[s].resp = 500
        /\ subs = <<>> /\ outbound = {}

-----------------------------------------------------------------------------
(* C26: a notification of a type outside the status table *)

\* slot s takes a notification whose type the status table does not list
ReceivesTypeOutsideTable(s) ==
    /\ Receives(s)
    /\ req'[s].in.ntype # ""
    /\ req'[s].in.ntype \notin KnownTypes

\* C26: an Apple notification whose notificationType is not in the status
\* table changes no subscription row and dispatches no outbound webhook: the
\* handler returns in the step that takes it, with the table and the
\* dispatched notifications as they were.
C26_UnknownTypeNoEffect ==
    [][\A s \in Slots :
          ReceivesTypeOutsideTable(s) =>
              /\ req'[s].pc = "done"
              /\ req'[s].op = "none"
              /\ subs' = subs
              /\ outbound' = outbound]_vars

\* a notification of an unknown type for the subscription of an existing row
\* reached handleNotificationByType and was answered, the row as it was
C26_Witness ==
    \E s \in Slots :
        /\ req[s].pc = "done" /\ req[s].resp = 200 /\ req[s].op = "none"
        /\ req[s].in.kind = "webhook" /\ req[s].in.ntype = "TEST"
        /\ req[s].in.bundle = "bA" /\ req[s].in.txOK
        /\ Len(subs) = 1 /\ subs[1].otid = req[s].in.otid
        /\ subs[1].status = "active"

-----------------------------------------------------------------------------
(* Specification SpecSequence: the life of one subscription told by the     *)
(* store in MaxSequence notifications, one after the other                  *)

SequenceTypes == {"SUBSCRIBED", "DID_RENEW", "DID_REFUND", "EXPIRED"}

\* the transaction a notification carries: its id, product and purchase date
SequenceTransactions ==
    { [tid |-> "t1", product |-> "monthly", purchaseMS |-> 0],
      [tid |-> "t2", product |-> "yearly", purchaseMS |-> 1000] }

SequenceInputs ==
    { [NoInput EXCEPT !.kind = "webhook", !.ntype = nt, !.uuid = "", !.bundle = "bA",
                      !.tid = tx.tid, !.otid = "o1", !.token = "U1",
                      !.expiresMS = e, !.purchaseMS = tx.purchaseMS,
                      !.product = tx.product, !.autoRenew = 1,
                      !.env = "Production"] :
        nt \in SequenceTypes, tx \in SequenceTransactions, e \in {9000, 12000} }

\* the request counter leaves room for MaxSequence requests
InitSequence ==
    /\ projects = ProjectRows
    /\ subs = <<>>
    /\ rowLock = <<>>
    /\ req = [s \in Slots |-> IdleReq]
    /\ processedNotifications = [k \in {} |-> 0]
    /\ now = 0
    /\ outbound = {}
    /\ mismatchLog = {}
    /\ wn = WnIdle
    /\ started = MaxStarted - MaxSequence
    /\ rp = RpInit
    /\ sv = SvInit

\* the store sends the next notification after the answer to the last one
SequenceStart ==
    /\ \A t \in Slots : req[t].pc \in {"idle", "done"}
    /\ \E s \in Slots, in \in SequenceInputs : WebhookStart(s, in)

SequenceRead == \E s \in Slots : WebhookRead(s)

SequenceWrite == \E s \in Slots : WebhookWrite(s)

NextSequence ==
    \/ SequenceStart
    \/ SequenceRead
    \/ SequenceWrite

SpecSequence == InitSequence /\ [][NextSequence]_vars

StopTypes == {"DID_FAIL_TO_RENEW", "DID_CANCEL", "DID_REFUND", "REVOKE",
              "EXPIRED", "GRACE_PERIOD_EXPIRED"}

\* C27: processing DID_FAIL_TO_RENEW, DID_CANCEL, DID_REFUND, REVOKE, EXPIRED
\* or GRACE_PERIOD_EXPIRED leaves the row's expires_date, purchase_date,
\* product_id, transaction_id, original_transaction_id, project_id and
\* platform unchanged and adds no row, while DID_RENEW stores the delivered
\* expiresDate; hence after SUBSCRIBED, DID_RENEW with a new expiresDate and
\* DID_REFUND there is a single row with the expires_date of DID_RENEW.
C27_StopKeepsDates ==
    [][\A s \in Slots : WebhookUpdates(s) =>
          LET before == subs[req[s].found]
              after  == subs'[req[s].found]
          IN  /\ Len(subs') = Len(subs)
              /\ req[s].in.ntype \in StopTypes =>
                    /\ after.expires = before.expires
                    /\ after.purchase = before.purchase
                    /\ after.product = before.product
                    /\ after.tid = before.tid
                    /\ after.otid = before.otid
                    /\ after.pid = before.pid
                    /\ after.platform = before.platform
              /\ req[s].in.ntype = "DID_RENEW" =>
                    after.expires = UnixFromMS(req[s].in.expiresMS)]_vars

\* SUBSCRIBED with expiresDate 9, then DID_RENEW with expiresDate 12, then
\* DID_REFUND carrying other values: one row, refunded, expires_date 12
C27_Witness ==
    /\ req[2].pc = "done" /\ req[2].resp = 200 /\ req[2].op = "update"
    /\ req[2].in.ntype = "DID_RENEW" /\ req[2].in.expiresMS = 12000
    /\ req[1].pc = "done" /\ req[1].resp = 200 /\ req[1].op = "update"
    /\ req[1].in.ntype = "DID_REFUND" /\ req[1].in.expiresMS = 9000
    /\ req[1].in.tid = "t2" /\ req[1].in.product = "yearly"
    /\ \E o \in outbound : o.sub.status = "active" /\ o.sub.expires = 9
                            /\ o.sub.tid = "t1" /\ o.sub.product = "monthly"
    /\ Len(subs) = 1
    /\ subs[1].status = "refunded" /\ ~subs[1].autoRenew
    /\ subs[1].expires = 12 /\ subs[1].tid = "t1" /\ subs[1].product = "monthly"

-----------------------------------------------------------------------------
(* C28: the signature header of an Apple webhook request *)

\* slot s takes a request with a body whose signature header, verified by
\* VerifyNotification, fails
ReceivesBadSignature(s) ==
    /\ Receives(s)
    /\ req'[s].in.envelope # "empty"
    /\ req'[s].in.sig = "invalid"

\* C28: an Apple webhook request (with a body) whose signature header fails
\* verification is answered 401 and changes nothing: no Replay Guard entry,
\* no subscription row created or changed, no outbound webhook; a 401 is
\* given to such requests only, and a request without the header is handled
\* as one whose header verifies.
C28_BadSignatureRejected ==
    [][\A s \in Slots :
          /\ ReceivesBadSignature(s) =>
                /\ AnswersAtOnce(s, 401)
                /\ processedNotifications' = processedNotifications
          /\ (Receives(s) /\ req'[s].resp = 401) => req'[s].in.sig = "invalid"
          /\ (Receives(s) /\ req'[s].in.sig = "absent") =>
                /\ req'[s].resp = EarlyStatus([req'[s].in EXCEPT !.sig = "valid"])
                /\ req'[s].pc = IF req'[s].resp = 0 THEN "read" ELSE "done"]_vars

\* a SUBSCRIBED notification with a failing signature header was answered 401
\* and the Replay Guard does not hold its id
C28_Witness ==
    \E s \in Slots :
        /\ req[s].pc = "done" /\ req[s].resp = 401
        /\ req[s].in.kind = "webhook" /\ req[s].in.sig = "invalid"
        /\ req[s].in.envelope = "ok" /\ req[s].in.ntype = "SUBSCRIBED"
        /\ req[s].in.bundle = "bA" /\ req[s].in.txOK /\ req[s].in.uuid = "n1"
        /\ generateNotificationID(req[s].in.uuid, req[s].in.signedDate)
              \notin DOMAIN processedNotifications
        /\ subs = <<>> /\ outbound = {}

-----------------------------------------------------------------------------
(* Specification SpecGuard: request goroutines calling IsReplay at the same *)
(* time                                                                     *)

GuardInputs ==
    { [NoInput EXCEPT !.kind = "replay", !.uuid = u, !.signedDate = d] :
        u \in {"", "n1", "n2"}, d \in {1, 2} }

GuardEnter == \E s \in Slots, in \in GuardInputs : IsReplayEnter(s, in)

GuardLock == \E s \in Slots : IsReplayLock(s)

GuardLookup == \E s \in Slots : IsReplayLookup(s)

GuardInsert == \E s \in Slots : IsReplayInsert(s)

GuardUnlock == \E s \in Slots : IsReplayUnlock(s)

NextGuard ==
    \/ GuardEnter
    \/ GuardLock
    \/ GuardLookup
    \/ GuardInsert
    \/ GuardUnlock

SpecGuard == Init /\ [][NextGuard]_vars

\* the calls that returned false for the notification of the call in slot s
AcceptedAs(s) ==
    {a \in rp.accepted : /\ a.uuid = req[s].in.uuid
                         /\ a.timestamp = req[s].in.signedDate}

\* the call in slot s returns in this step
Returns(s) ==
    /\ req[s].in.kind = "replay" /\ req[s].pc # "done"
    /\ req'[s].pc = "done" /\ req'[s].in.kind = "replay"

\* C29: IsReplay is an atomic check-and-insert: with an empty uuid it returns
\* false and inserts nothing; otherwise it returns true with the map
\* unchanged if the key is in the map, else inserts the key and returns
\* false; of the calls made with the same non-empty (uuid, signedDate),
\* concurrent or not, exactly one returns false.
C29_AtomicCheckAndInsert ==
    [][\A s \in Slots :
          LET id == generateNotificationID(req'[s].in.uuid, req'[s].in.signedDate)
          IN  /\ (Returns(s) /\ req'[s].in.uuid = "") =>
                    /\ req'[s].op = "false"
                    /\ processedNotifications' = processedNotifications
                    /\ rp'.accepted = rp.accepted
              /\ (Returns(s) /\ req'[s].in.uuid # "") =>
                    /\ id \in DOMAIN processedNotifications'
                    /\ req'[s].op = "false" <=> \E a \in rp'.accepted :
                                                   /\ a.call = req[s].found
                                                   /\ a.uuid = req'[s].in.uuid
                                                   /\ a.timestamp = req'[s].in.signedDate
                    /\ Cardinality({a \in rp'.accepted :
                                       /\ a.uuid = req'[s].in.uuid
                                       /\ a.timestamp = req'[s].in.signedDate}) = 1
              /\ (req[s].pc = "insert" /\ req'[s].pc = "unlock") =>
                    /\ id \notin DOMAIN processedNotifications
                    /\ DOMAIN processedNotifications' =
                          DOMAIN processedNotifications \cup {id}
                    /\ \A k \in DOMAIN processedNotifications :
                          processedNotifications'[k] = processedNotifications[k]]_vars

\* two calls with the same notification are in IsReplay at the same time:
\* one holds the mutex and has inserted the key, the other waits for the mutex
C29_Witness ==
    /\ req[1].in.kind = "replay" /\ req[1].in = req[2].in /\ req[1].in.uuid = "n1"
    /\ req[1].pc = "unlock" /\ req[1].op = "false" /\ rp.mutex = 1
    /\ req[2].pc = "lock"
    /\ Cardinality(AcceptedAs(1)) = 1

-----------------------------------------------------------------------------
(* C30: what the sweeper of the Replay Guard removes, and when *)

Hours(n) == n * 3600

\* the sweeper runs in this step
Sweeps == rp'.tick # rp.tick

\* C30: the sweeper, ticking every hour, removes at each tick exactly the
\* entries first seen more than 24 hours before the tick and keeps every
\* younger entry as it was; consequently no entry stays in the map later than
\* 25 hours after it was first seen.
C30_SweeperRemovesOld ==
    [][/\ Sweeps =>
            /\ rp'.tick = now /\ rp'.tick - rp.tick = Hours(1)
            /\ DOMAIN processedNotifications' =
                  {k \in DOMAIN processedNotifications :
                      now - processedNotifications[k] <= Hours(24)}
            /\ \A k \in DOMAIN processedNotifications' :
                  processedNotifications'[k] = processedNotifications[k]
       /\ \A k \in DOMAIN processedNotifications' :
            /\ now' - processedNotifications'[k] <= Hours(25)
            /\ now' - processedNotifications'[k] = Hours(25) => rp'.tick < now'
      ]_vars

\* the sweeper has just removed an entry first seen 25 hours ago, which it
\* kept an hour earlier, and has kept a younger one
C30_Witness ==
    /\ rp.tick = now
    /\ \E a \in rp.accepted :
          /\ a.at + Hours(25) = now
          /\ generateNotificationID(a.uuid, a.timestamp)
                \notin DOMAIN processedNotifications
    /\ \E k \in DOMAIN processedNotifications :
          now - processedNotifications[k] = Hours(24)

-----------------------------------------------------------------------------
(* Specification SpecChain: verifyCertificateChain over certificate chains  *)
(* of one or two certificates, while the clock advances                     *)

\* validity periods: current, ending at 1, beginning at 5
Validities == {<<0, 10>>, <<0, 1>>, <<5, 10>>}

ChainKeys == <<"k1", "k2", "k3">>

\* the certificates a chain may hold at position i: signed by the key of the
\* position before, of the position after, or by its own key
CertsAt(i, n) ==
    { [key |-> ChainKeys[i], signer |-> ChainKeys[j], notBefore |-> v[1],
       notAfter |-> v[2], apple |-> a] :
        j \in {k \in {i - 1, i, i + 1} : k >= 1 /\ k <= n},
        v \in Validities, a \in BOOLEAN }

Chains ==
    UNION { {c \in [1..n -> UNION {CertsAt(i, n) : i \in 1..n}] :
                \A i \in 1..n : c[i] \in CertsAt(i, n)} : n \in 1..2 }

VerifyChain == \E c \in Chains : VerifyChainCall(c)

NextChain ==
    \/ VerifyChain
    \/ Tick

SpecChain == Init /\ [][NextChain]_vars

\* C31: verifyCertificateChain accepts a chain (leaf first, root last) only
\* if every certificate is within its validity period, every non-root
\* certificate is signed by its parent, the next certificate towards the
\* root, and the root's Subject contains a recognised Apple identifier.
C31_ChainAcceptedOnlyIfSigned ==
    (sv.check.made /\ sv.check.ok) =>
        LET c == sv.check.chain
        IN  /\ \A i \in 1..Len(c) :
                  c[i].notBefore <= sv.check.at /\ sv.check.at <= c[i].notAfter
            /\ \A i \in 1..(Len(c) - 1) : c[i].signer = c[i + 1].key
            /\ c[Len(c)].apple

-----------------------------------------------------------------------------
(* Specification SpecSkew: VerifyNotification over signature headers whose  *)
(* timestamp lies around the tolerated difference, while the clock advances *)

SkewTimestamps == {-301, -300, -299, -298, 0, 300, 301, 302, 303, 304}

SkewHeaders ==
    { [present |-> TRUE, decodable |-> d, chain |-> c, sigKey |-> k, timestamp |-> ts] :
        d \in BOOLEAN, c \in {<<>>, <<"pemA", "pemB">>, <<"pemB", "pemA">>, <<"pemX">>},
        k \in {"k1", "k2"}, ts \in SkewTimestamps }

VerifyHeader == \E hdr \in SkewHeaders : VerifyNotificationCall(hdr)

NextSkew ==
    \/ VerifyHeader
    \/ Tick

SpecSkew == Init /\ [][NextSkew]_vars

\* the header of the last call passes every check but that of the timestamp
OtherChecksPass ==
    /\ sv.check.made /\ sv.check.decoded
    /\ sv.check.chain = <<"pemA", "pemB">>
    /\ sv.check.sigKey = "k1"

\* C32: all other checks passing, VerifyNotification rejects a notification
\* whose signature timestamp differs from the current time by more than 300
\* seconds in either direction and accepts every smaller difference and a
\* difference of exactly 300 seconds.
C32_SkewTolerance ==
    OtherChecksPass =>
        (sv.check.ok <=> /\ sv.check.at - sv.check.timestamp <= 300
                         /\ sv.check.timestamp - sv.check.at <= 300)

\* a notification stamped exactly 300 seconds in the future was accepted
C32_Witness ==
    /\ OtherChecksPass /\ sv.check.ok
    /\ sv.check.timestamp - sv.check.at = 300
    /\ sv.check.at > 0

-----------------------------------------------------------------------------
(* Specification SpecCache: the certificate cache of the Signature Verifier *)
(* over a day and more                                                      *)

CacheChains == {<<"pemA">>, <<"pemA", "pemB">>, <<"pemX", "pemB">>}

GetChain == \E c \in CacheChains : GetCertificateChainCall(c)

HourPasses ==
    /\ now < MaxCacheHours * 3600
    /\ now' = now + 3600
    /\ UNCHANGED <<projects, subs, rowLock, req, processedNotifications,
                   outbound, mismatchLog, wn, started, rp, sv>>

NextCache ==
    \/ GetChain
    \/ HourPasses

SpecCache == Init /\ [][NextCache]_vars

\* C33: a certificate placed in the cache is served from the cache for at
\* most 24 hours: a lookup of the same PEM string more than 24 hours after it
\* was cached is not answered from the cache without parsing it again.
C33_CacheEntryExpires ==
    sv.lookup.made =>
        \A e \in sv.lookup.served : sv.lookup.at - e.cachedAt <= 24 * 3600

-----------------------------------------------------------------------------
(* Specification SpecResolve: client verifications naming their project by  *)
(* app_id, by signed_transaction, by both or by neither                     *)

ResolveInputs ==
    { [NoInput EXCEPT !.kind = "verify", !.bundle = b, !.signedTx = sx, !.jwsBundle = jb,
                      !.tid = "t1", !.otid = "o1", !.userID = "U1", !.expiresMS = 9000,
                      !.product = "monthly", !.env = "Production", !.apiStatus = a] :
        b \in {"", "bA", "bB", "bX"}, sx \in {"", "jws"}, jb \in {"", "bA", "bB", "bX"},
        a \in {200, 500} }

ResolveStart == \E in \in ResolveInputs : VerifyStart(1, in)

ResolveRead == VerifyRead(1)

ResolveWrite == VerifyWrite(1)

NextResolve ==
    \/ ResolveStart
    \/ ResolveRead
    \/ ResolveWrite

SpecResolve == Init /\ [][NextResolve]_vars

\* slot s takes a verify request in this step
ReceivesVerify(s) ==
    /\ Free(s)
    /\ started' = started + 1
    /\ req'[s].in.kind = "verify"

\* the bundle id the documented order takes the project from, "" when none
BundleInOrder(in) ==
    IF in.bundle # "" THEN in.bundle
    ELSE IF in.signedTx # "" THEN in.jwsBundle
    ELSE ""

\* C34: POST /api/subscription/verify resolves the project in a fixed order:
\* a given app_id is looked up by bundle id and a miss fails the request
\* without trying the signed transaction; the bundleId of signed_transaction
\* is used only when app_id is absent; if neither yields a project the
\* request is answered 4xx before any store call, write or outbound webhook.
C34_ProjectResolutionOrder ==
    [][\A s \in Slots : ReceivesVerify(s) =>
          LET in == req'[s].in
              hit == {p \in projects : BundleInOrder(in) # "" /\ p.bundle = BundleInOrder(in)}
          IN  /\ hit = {} =>
                    /\ req'[s].pc = "done"
                    /\ req'[s].resp \in 400..499
                    /\ req'[s].calls = <<>>
                    /\ UNCHANGED <<subs, outbound>>
              /\ req'[s].pc # "done" => req'[s].project \in hit]_vars

\* app_id names no project while signed_transaction names project pA: the
\* request was answered 400 with no call and no row
C34_Witness ==
    \E s \in Slots :
        /\ req[s].pc = "done" /\ req[s].resp = 400 /\ req[s].in.kind = "verify"
        /\ req[s].in.bundle = "bX" /\ req[s].in.signedTx # ""
        /\ req[s].in.jwsBundle = "bA" /\ req[s].in.apiStatus = 200
        /\ req[s].calls = <<>> /\ subs = <<>> /\ outbound = {}

-----------------------------------------------------------------------------
(* Specification SpecDerive: modern verifications over the expiry date and  *)
(* the billing-retry and grace-period flags of the transaction              *)

DeriveInputs ==
    { [NoInput EXCEPT !.kind = "verify", !.bundle = "bA", !.tid = "t1", !.otid = "o1",
                      !.userID = "U1", !.expiresMS = e, !.product = "monthly",
                      !.env = "Production", !.billingRetry = br, !.grace = gp] :
        e \in {0, 1000, 2000, 9000}, br \in BOOLEAN, gp \in BOOLEAN }

DeriveStart == \E in \in DeriveInputs : VerifyStart(1, in)

DeriveRead == VerifyRead(1)

DeriveWrite == VerifyWrite(1)

NextDerive ==
    \/ DeriveStart
    \/ DeriveRead
    \/ DeriveWrite
    \/ Tick

SpecDerive == Init /\ [][NextDerive]_vars

\* the status of the documented derivation
DocumentedStatus(expires, billingRetry, grace, t) ==
    IF expires > t THEN "active"
    ELSE IF billingRetry THEN "billing_retry"
    ELSE IF grace THEN "grace_period"
    ELSE "expired"

\* C35: in the modern iOS verify path the status is derived as: active if
\* expires_date is later than now; billing_retry if the billing-retry flag
\* is set; grace_period if the grace-period flag is set; otherwise expired,
\* so that a transaction with expires_date later than now is stored as active.
C35_StatusDerivation ==
    [][\A s \in Slots :
          (ReceivesVerify(s) /\ ~req'[s].in.legacy /\ req'[s].pc = "read") =>
              req'[s].sub.status =
                  DocumentedStatus(req'[s].sub.expires, req'[s].in.billingRetry,
                                   req'[s].in.grace, now)]_vars

-----------------------------------------------------------------------------
(* Specification SpecDispatch: webhooks and client verifications for a      *)
(* project with a callback URL and for one without, some of them failing    *)

DispatchWebhookInputs ==
    { [NoInput EXCEPT !.kind = "webhook", !.ntype = nt, !.uuid = "", !.bundle = b,
                      !.tid = "t1", !.otid = o, !.token = "U1", !.expiresMS = 9000,
                      !.product = "monthly", !.autoRenew = 1, !.env = "Production"] :
        nt \in {"SUBSCRIBED", "DID_RENEW", "TEST"}, b \in {"bA", "bB"},
        o \in {"o1", "o2"} }

DispatchVerifyInputs ==
    { [NoInput EXCEPT !.kind = "verify", !.bundle = b, !.tid = "t1", !.otid = o,
                      !.userID = "U1", !.expiresMS = 9000, !.product = "monthly",
                      !.env = "Production", !.apiStatus = a] :
        b \in {"bA", "bB"}, o \in {"o1", "o2"}, a \in {200, 500} }

DispatchStartWebhook == \E in \in DispatchWebhookInputs : WebhookStart(1, in)

DispatchStartVerify == \E in \in DispatchVerifyInputs : VerifyStart(1, in)

DispatchWebhookRead == WebhookRead(1)

DispatchWebhookWrite == WebhookWrite(1)

DispatchVerifyRead == VerifyRead(1)

DispatchVerifyWrite == VerifyWrite(1)

NextDispatch ==
    \/ DispatchStartWebhook
    \/ DispatchStartVerify
    \/ DispatchWebhookRead
    \/ DispatchWebhookWrite
    \/ DispatchVerifyRead
    \/ DispatchVerifyWrite

SpecDispatch == Init /\ [][NextDispatch]_vars

\* slot s ends its write in this step with the row it wrote in the table
WroteRow(s) ==
    /\ req[s].pc = "write"
    /\ req'[s].pc = "done" /\ req'[s].resp = 200
    /\ req'[s].op \in {"insert", "update"}
    /\ \E i \in 1..Len(subs') :
          /\ subs'[i].pid = req[s].sub.pid /\ subs'[i].otid = req[s].sub.otid
          /\ (i > Len(subs) \/ req[s].found = i)

\* C36: an outbound tenant webhook is dispatched only after the subscription
\* write of the same request has succeeded and only when the project has a
\* non-empty callback URL: every dispatch goes to the callback URL of the
\* project of a request that has just written its row, and a failed write,
\* an unknown notification type or a missing callback URL dispatches nothing.
C36_DispatchAfterWrite ==
    [][/\ \A o \in outbound' \ outbound :
            /\ WroteRow(o.from)
            /\ o.url # NoURL
            /\ o.url = req[o.from].project.callback
            /\ o.sub.pid = req[o.from].sub.pid /\ o.sub.otid = req[o.from].sub.otid
       /\ \A s \in Slots :
            (req'[s] # req[s] /\ req'[s].pc = "done"
                /\ (\/ req'[s].resp # 200
                    \/ req'[s].op = "none"
                    \/ req[s].project.callback = NoURL))
            => outbound' = outbound]_vars

\* the write for the project with a callback was dispatched; the request that
\* followed, for the project without a callback, failed and dispatched nothing
C36_Witness ==
    /\ Cardinality(outbound) = 1
    /\ \E o \in outbound : o.url = CallbackA /\ o.sub.pid = "pA"
    /\ Len(subs) = 1
    /\ req[1].pc = "done" /\ req[1].resp # 200 /\ req[1].in.ntype \in {"", "SUBSCRIBED"}
    /\ req[1].in.bundle = "bB"

-----------------------------------------------------------------------------
(* Specification SpecEnvironment: the three writers of the environment     *)
(* column, with the environment names Apple sends                           *)

AppleEnvironments == {"Production", "Sandbox"}

EnvironmentWebhookInputs ==
    { [NoInput EXCEPT !.kind = "webhook", !.ntype = nt, !.uuid = "", !.bundle = "bA",
                      !.tid = t, !.otid = o, !.token = "U1", !.expiresMS = 9000,
                      !.product = "monthly", !.autoRenew = 1, !.env = e] :
        nt \in {"SUBSCRIBED", "DID_RENEW"}, t \in {"t1", "t2"}, o \in {"o1", "o2"},
        e \in AppleEnvironments }

EnvironmentVerifyInputs ==
    { [NoInput EXCEPT !.kind = "verify", !.bundle = "bA", !.tid = t, !.otid = o,
                      !.userID = "U1", !.expiresMS = 9000, !.product = "monthly",
                      !.env = e, !.legacy = l] :
        t \in {"t1", "t2"}, o \in {"o1", "o2"}, e \in AppleEnvironments,
        l \in BOOLEAN }

EnvironmentStartWebhook == \E in \in EnvironmentWebhookInputs : WebhookStart(1, in)

EnvironmentStartVerify == \E in \in EnvironmentVerifyInputs : VerifyStart(1, in)

EnvironmentWebhookRead == WebhookRead(1)

EnvironmentWebhookWrite == WebhookWrite(1)

EnvironmentVerifyRead == VerifyRead(1)

EnvironmentVerifyWrite == VerifyWrite(1)

NextEnvironment ==
    \/ EnvironmentStartWebhook
    \/ EnvironmentStartVerify
    \/ EnvironmentWebhookRead
    \/ EnvironmentWebhookWrite
    \/ EnvironmentVerifyRead
    \/ EnvironmentVerifyWrite

SpecEnvironment == Init /\ [][NextEnvironment]_vars

\* C37: every persisted subscription row has environment equal to sandbox or
\* production in lower case, whichever path wrote it (Apple webhook, modern
\* verify or legacy verifyReceipt).
C37_EnvironmentLowerCase ==
    \A i \in 1..Len(subs) : subs[i].env \in {"sandbox", "production"}

-----------------------------------------------------------------------------
(* Specification SpecCommute: one webhook event and one client verify,     *)
(* handled one after the other in either order on the empty table          *)

CommuteWebhookInputs ==
    { [NoInput EXCEPT !.kind = "webhook", !.ntype = nt, !.uuid = "", !.bundle = b,
                      !.tid = t, !.otid = o, !.token = "U1", !.expiresMS = 9000,
                      !.product = "monthly", !.autoRenew = 1, !.env = "Production"] :
        nt \in {"SUBSCRIBED", "DID_RENEW"}, b \in {"bA", "bB"}, t \in TIDs,
        o \in {"o1", "o2"} }

CommuteVerifyInputs ==
    { [NoInput EXCEPT !.kind = "verify", !.bundle = b, !.tid = t, !.otid = o,
                      !.userID = "U2", !.expiresMS = 9000, !.product = "yearly",
                      !.env = "Production", !.apiStatus = a] :
        b \in {"bA", "bB"}, t \in TIDs, o \in {"o1", "o2"}, a \in {200, 500} }

\* slot 1 handles the webhook event, slot 2 the verify; neither starts while
\* the other is between its first and last statement
CommuteStartWebhook ==
    /\ req[1].pc = "idle" /\ req[2].pc \in {"idle", "done"}
    /\ \E in \in CommuteWebhookInputs : WebhookStart(1, in)

CommuteStartVerify ==
    /\ req[2].pc = "idle" /\ req[1].pc \in {"idle", "done"}
    /\ \E in \in CommuteVerifyInputs : VerifyStart(2, in)

CommuteWebhookRead == WebhookRead(1)

CommuteWebhookWrite == WebhookWrite(1)

CommuteVerifyRead == VerifyRead(2)

CommuteVerifyWrite == VerifyWrite(2)

NextCommute ==
    \/ CommuteStartWebhook
    \/ CommuteStartVerify
    \/ CommuteWebhookRead
    \/ CommuteWebhookWrite
    \/ CommuteVerifyRead
    \/ CommuteVerifyWrite

SpecCommute == Init /\ [][NextCommute]_vars

\* the (project_id, original_transaction_id) key each operation targets
WebhookKey(in) == <<GetProjectByBundleID(in.bundle).pid, in.otid>>

VerifyKey(in) == <<ResolveVerifyProject(in).pid, in.otid>>

\* the status and the rows the webhook event ends with when it is the only
\* operation applied to the empty table
WebhookAloneStatus(in) ==
    IF EarlyStatus(in) # 0 THEN EarlyStatus(in)
    ELSE IF in.ntype \notin CreateTypes THEN 500
    ELSE 200

WebhookAloneRows(in) ==
    IF WebhookAloneStatus(in) = 200 /\ EarlyStatus(in) = 0
    THEN {NewSubscription(in, GetProjectByBundleID(in.bundle).pid)}
    ELSE {}

\* the same for the verify
VerifyAloneStatus(in) ==
    IF /\ in.userID # ""
       /\ ResolveVerifyProject(in) # NoProject
       /\ GetActiveProjectByID(ResolveVerifyProject(in).pid) # NoProject
       /\ ~UpstreamFails(in)
    THEN 200 ELSE 400

VerifyAloneRows(in) ==
    IF VerifyAloneStatus(in) = 200
    THEN {VerifiedSubscription(in, ResolveVerifyProject(in).pid, now)}
    ELSE {}

BothApplied == req[1].pc = "done" /\ req[2].pc = "done"

TableRows == {subs[i] : i \in 1..Len(subs)}

\* both orders end in the rows and the answers each operation gives alone
SameInBothOrders ==
    /\ TableRows = WebhookAloneRows(req[1].in) \cup VerifyAloneRows(req[2].in)
    /\ Len(subs) = Cardinality(TableRows)
    /\ req[1].resp = WebhookAloneStatus(req[1].in)
    /\ req[2].resp = VerifyAloneStatus(req[2].in)

\* C38 as stated: a webhook event and a client verify that target different
\* (project_id, original_transaction_id) keys commute: in either order the
\* final rows are the same, each operation succeeds, and each leaves the rows
\* of every other key unchanged.
C38_CommuteOnDifferentKeys ==
    (BothApplied /\ WebhookKey(req[1].in) # VerifyKey(req[2].in)) => SameInBothOrders

\* C38: a webhook event and a client verify that target different
\* (project_id, original_transaction_id) keys and carry different
\* transaction ids commute: in either order the final rows and the two
\* answers are those each operation gives alone.
C38_CommuteOnDifferentTransactions ==
    (/\ BothApplied
     /\ WebhookKey(req[1].in) # VerifyKey(req[2].in)
     /\ req[1].in.tid # req[2].in.tid) => SameInBothOrders

\* the verify ran first and the webhook second, on the same original
\* transaction id in two projects, and both wrote their row
C38_Witness ==
    /\ BothApplied /\ req[1].resp = 200 /\ req[2].resp = 200
    /\ req[1].in.tid # req[2].in.tid
    /\ Len(subs) = 2
    /\ subs[1].receipt = "jws" /\ subs[1].pid = "pA" /\ subs[1].otid = "o1"
    /\ subs[2].receipt = "" /\ subs[2].pid = "pB" /\ subs[2].otid = "o1"

-----------------------------------------------------------------------------
(* Specification SpecTransaction: webhook events and client verifications  *)
(* (App Store Server API and verifyReceipt) of one subscription handled    *)
(* concurrently, and the notifier goroutine with the tenant's answers      *)

TransactionWebhookInputs ==
    { [NoInput EXCEPT !.kind = "webhook", !.ntype = "SUBSCRIBED", !.uuid = "",
                      !.bundle = "bA", !.tid = "t1", !.otid = "o1", !.token = "U1",
                      !.deviceID = dv, !.expiresMS = 9000, !.product = "monthly",
                      !.autoRenew = 1, !.env = "Production"] : dv \in {"", "D1"} }

TransactionVerifyInputs ==
    { [NoInput EXCEPT !.kind = "verify", !.bundle = "bA", !.tid = "t1", !.otid = "o1",
                      !.userID = "U1", !.expiresMS = 9000, !.product = "monthly",
                      !.env = "Production", !.legacy = l, !.apiStatus = a,
                      !.appleStatus = st, !.sandboxEnv = "Sandbox"] :
        l \in BOOLEAN, a \in {200, 500}, st \in {0, 21007} }

TransactionAnswers == {200, 500}

TransactionStartWebhook == \E in \in TransactionWebhookInputs : WebhookStart(1, in)

TransactionStartVerify ==
    \E s \in Slots, in \in TransactionVerifyInputs : VerifyStart(s, in)

TransactionWebhookRead == WebhookRead(1)

TransactionWebhookWrite == WebhookWrite(1)

TransactionSelect == \E s \in Slots : VerifyRead(s)

TransactionCommit == \E s \in Slots : VerifyWrite(s)

TransactionDeliver == \E o \in outbound : NotifyAppBackend(o.url, o.secret, o.sub)

TransactionSend == \E st \in TransactionAnswers : SendAttempt(st)

NextTransaction ==
    \/ TransactionStartWebhook
    \/ TransactionStartVerify
    \/ TransactionWebhookRead
    \/ TransactionWebhookWrite
    \/ TransactionSelect
    \/ TransactionCommit
    \/ TransactionDeliver
    \/ TransactionSend

SpecTransaction == Init /\ [][NextTransaction]_vars

\* slot s is inside DB.Transaction of CreateOrUpdateSubscription: past the
\* SELECT ... FOR UPDATE, before the commit
InTransaction(s) == req[s].in.kind = "verify" /\ req[s].pc = "write"

HoldsRowLock(s) == \E i \in 1..Len(rowLock) : rowLock[i] = s

\* the notifier goroutine works on a subscription some handler has handed over
Delivering ==
    wn.state = "idle"
    \/ \E o \in outbound : wn.url = o.url /\ wn.payload.original_transaction_id = o.sub.otid

\* C39: every external HTTP call happens outside the database transaction of
\* CreateOrUpdateSubscription: the store calls are made before the
\* transaction begins and none is added while it is open, only a verify ever
\* holds a row lock and only inside its transaction, the subscription is
\* handed to the notifier in the step that commits and releases the lock,
\* and every tenant attempt is for a subscription handed over that way.
C39_CallsOutsideTransaction ==
    [][/\ \A s \in Slots :
            /\ (InTransaction(s) \/ InTransaction(s)') => req'[s].calls = req[s].calls
            /\ InTransaction(s)' =>
                  /\ req'[s].calls = VerificationCalls(req'[s].in, req'[s].project)
                  /\ req'[s].calls # <<>>
            /\ HoldsRowLock(s)' => InTransaction(s)'
       /\ \A o \in outbound' \ outbound :
            /\ req[o.from].pc = "write" /\ req'[o.from].pc = "done"
            /\ ~HoldsRowLock(o.from)'
            /\ wn' = wn
       /\ Delivering']_vars

\* a verify holds the row lock inside its transaction, its store call made,
\* while the notifier is sending the subscription an earlier request committed
C39_Witness ==
    /\ InTransaction(2) /\ HoldsRowLock(2) /\ req[2].calls = <<"transactions">>
    /\ req[1].pc = "done" /\ req[1].resp = 200
    /\ wn.state = "sending" /\ Len(wn.sent) = 1
    /\ \E o \in outbound : o.from = 1

====
